---- MODULE Spec2Model ----
(***************************************************************************)
(* Verification model of the Zeus task execution engine:                   *)
(*   - services/task_queue.py      the SQLite task queue (TaskQueue)        *)
(*   - api/ws_manager.py           the connection manager                   *)
(*   - agent/orchestrator.py       the tool-calling loop (process_message)  *)
(*   - services/background_worker.py  the worker's processing units         *)
(*   - api/websocket.py            the per-connection handler               *)
(* Each component has its own next-state relation and specification; the   *)
(* components share the variables they share in the program.               *)
(***************************************************************************)
EXTENDS Integers, Sequences, FiniteSets, TLC

\* ------------------------------------------------------------------ bounds
NumTasks == 1
NumJobs == 2
MaxSlots == 1
NumCallers == 2
MaxCalls == 2
MaxClock == 1
NumSocks == 2
NumProcs == 2
MaxOps == 3
MaxToolCalls == 2
MaxFrames == 3
NumSessions == 2
MaxDay == 1
NumRuns == 2

\* ------------------------------------------------------- program constants
\* an unset timestamp column (Optional[datetime] = None)
NULL == -1

\* asyncio.Lock(): the value of `lock` when nobody holds it
FREE == 0

\* process_message: `max_iterations = 200`
max_iterations == 200

\* get_background_worker: BackgroundWorker(max_concurrent_tasks=5, ...)
singleton_max_concurrent_tasks == 5

\* _call_model_with_retry: `max_attempts = 2`
max_attempts_three == 2 + 1
max_attempts == 2

\* ids of the rows the table can hold; the requests of the queue and worker
\* environments create the first NumTasks of them
TaskIds == 1..NumJobs
RequestIds == 1..NumTasks
Callers == 1..NumCallers
Socks == 1..NumSocks
Convs == {"A", "B"}
\* tasks of the event loop that call the connection manager: the connection
\* handlers' calls, and the worker's processing units (one per task)
WsProcs == 1..NumProcs
UnitOf(id) == 100 + id
UnitProcs == {UnitOf(id) : id \in TaskIds}
AllProcs == WsProcs \cup UnitProcs

\* TaskStatus (task_queue.py:27-33)
PENDING == "pending"
PROCESSING == "processing"
COMPLETED == "completed"
FAILED == "failed"
CANCELLED == "cancelled"
TaskStatus == {PENDING, PROCESSING, COMPLETED, FAILED, CANCELLED}

\* a row that is not in the table
NoRow == [status |-> "absent", created_at |-> NULL, started_at |-> NULL,
          completed_at |-> NULL, result |-> "null", error |-> "null",
          progress |-> <<>>]

VARIABLES
    \* ---- task queue (table `tasks`) and its callers
    tasks,          \* [TaskIds -> row]; NoRow when the id is not in the table
    now,            \* datetime.utcnow(), a logical clock
    cpc,            \* caller -> position: "idle", "claim", "claimed", "cancel_read"
    carg,           \* caller -> the task id of its call in flight
    cres,           \* caller -> the value its last claim_task returned
    ncalls,         \* number of calls issued so far
    wins,           \* task -> number of claim_task calls that returned True
    toProcessing,   \* task -> number of times the row went pending -> processing
    lostPending,    \* task -> a claim returned False although the row was pending
    current_progress,   \* caller -> `current_progress` of its _add_progress_sync
    overl           \* caller -> another claim of the same id was in flight when
                    \*           this caller issued its own, or was issued meanwhile

VARIABLES
    \* ---- connection manager (WebSocketManager) and the tasks that call it
    connections,        \* self._connections: conversation -> set of sockets
    conn_keys,          \* the keys present in self._connections (a defaultdict)
    ws_to_conversation, \* self._ws_to_conversation: socket -> conversation, or "none"
    all_sockets,        \* self._all_sockets
    lock,               \* self._lock: FREE, or the task that holds it
    sock,               \* socket -> "CONNECTED", "BROKEN" (client_state is CONNECTED
                        \*   but send_json raises) or "DISCONNECTED"
    pc,                 \* task -> position
    arg_ws,             \* task -> the websocket argument of its connect/disconnect
    arg_conv,           \* task -> the conversation_id argument of its connect
    todo,               \* task -> sockets of `connections` (the copied list) not yet visited
    targets,            \* task -> the copied list of its broadcast
    sent,               \* task -> sockets its broadcast has sent to
    count,              \* task -> `count` of its broadcast
    dead,               \* task -> `dead_connections` of its broadcast
    bret,               \* task -> where its broadcast returns to
    dret,               \* task -> where its disconnect returns to
    nops,               \* number of calls issued so far
    message             \* task -> the message of its broadcast in progress: the number
                        \*   of the call that dispatched it, 0 without a broadcast (the
                        \*   status messages of the processing units are not numbered)

VARIABLES
    \* ---- one invocation of AgentOrchestrator.process_message
    opc,            \* position: "idle", "while", "call_model", "response",
                    \*   "tool_start", "execute_tool", "tool_result", "returned", "raised"
    iteration,      \* `iteration`
    websocket,      \* the websocket argument: "None", "open", or "closed" (send_json raises)
    cancel_state,   \* cancel_state["cancelled"]
    tier,           \* the tier the cascade is at: 1 primary, 2 secondary, 3 tertiary
    calls,          \* tier -> chat_completion calls made by the cascade in progress
    n_tool_calls,   \* len(tool_calls) of the response accepted in this iteration
    tool_idx,       \* index (and id) of the tool call the for loop is at
    tool_name,      \* `tool_name`
    tool_result,    \* `tool_result`
    tool_messages,  \* the part of `messages` appended by this iteration's for loop
    releases,       \* number of cleanup_resources calls of this invocation
    returned,       \* content of the returned value, "" while there is none
    require_completion_tool, \* the require_completion_tool keyword of the call
    step_types      \* step types the progress sink was given for the tool call
                    \*   the for loop is at

VARIABLES
    \* ---- BackgroundWorker: the main loop and the processing units (the
    \*      position of the unit of task id is pc[UnitOf(id)])
    wpc,            \* position of _main_loop: "poll", "claiming"
    pending_tasks,  \* `pending_tasks` of _main_loop, the part of the list not yet visited
    active_tasks,   \* keys of self._active_tasks
    issued,         \* task -> statuses for which send_task_status has been called
    error_msg,      \* task -> `error_msg` of the except clause of _process_task
    max_concurrent_tasks    \* self.max_concurrent_tasks

VARIABLES
    \* ---- websocket_chat: the handler of one connection
    hpc,            \* position: "start", "connecting", "receive", "cancel", "message",
                    \*   "run", "disconnecting", "ended"
    inbox,          \* frames the observer has sent and receive_text has not yet returned
    cancel_during,  \* a cancel frame was sent while a message was being handled
    conversation_messages   \* roles of conversation.messages, in order

VARIABLES
    \* ---- ContainerSessionManager and the container engine it talks to
    containers,     \* container name -> "absent", "running", "exited" in the engine
    date,           \* the day datetime.now() falls on
    container       \* session -> name of the container the last
                    \*   get_or_create_container returned, NULL for None

VARIABLES
    \* ---- BackgroundWorker: stop() and the claim the main loop is awaiting
    running,        \* self._running
    spc,            \* position of stop(): "idle", "cancelled_loops", "waiting", "stopped"
    claim_arg,      \* id of the task whose claim_task the main loop has called and
                    \*   whose result it has not yet taken, NULL without one
    claim_ret       \* what that call's _claim_task_sync returned in its thread:
                    \*   "none" before it has run, "true", "false"

VARIABLES
    \* ---- the conversation the tasks and the handler work on
    saved_messages, \* messages of the conversation's JSON file, each <<role, id of
                    \*   the task it belongs to>>
    conversation    \* task -> messages of the `conversation` its unit has loaded

VARIABLES
    \* ---- invocations of process_message that run at the same time
    rpc,            \* invocation -> "idle", "started" (no tool dispatched yet),
                    \*   "tools" (a tool has used the session's container), "returned"
    rsession        \* invocation -> conversation.id of its conversation

wsvars == <<connections, conn_keys, ws_to_conversation, all_sockets, lock, sock, pc,
            arg_ws, arg_conv, todo, targets, sent, count, dead, bret, dret, nops,
            message>>

qvars == <<tasks, now, cpc, carg, cres, ncalls, wins, toProcessing, lostPending, overl,
          current_progress>>

ovars == <<opc, iteration, websocket, cancel_state, tier, calls, n_tool_calls, tool_idx,
           tool_name, tool_result, tool_messages, releases, returned,
           require_completion_tool, step_types>>

wvars == <<wpc, pending_tasks, active_tasks, issued, error_msg, max_concurrent_tasks>>

hvars == <<hpc, inbox, cancel_during, conversation_messages>>

cvars == <<containers, date, container>>

svars == <<running, spc, claim_arg, claim_ret>>

kvars == <<saved_messages, conversation>>

rvars == <<rpc, rsession>>

vars == <<qvars, wsvars, ovars, wvars, hvars, cvars, svars, kvars, rvars>>

\* what the actions of one component leave alone
notq == <<wsvars, ovars, wvars, hvars, cvars, svars, kvars, rvars>>
notws == <<qvars, ovars, wvars, hvars, cvars, svars, kvars, rvars>>
noto == <<qvars, wsvars, wvars, hvars, cvars, svars, kvars, rvars>>

\* ----------------------------------------------------------- task queue
\* Task(...) as create_task builds it, inserted by _create_task_sync
NewTask(t) ==
    [status |-> PENDING, created_at |-> t, started_at |-> NULL,
     completed_at |-> NULL, result |-> "null", error |-> "null",
     progress |-> <<>>]

\* a row DELETEd by _cleanup_old_tasks_sync: not in the table, its id (a
\* uuid4) is not used again
DeletedRow == [NoRow EXCEPT !.status = "deleted"]

\* the id is the primary key of a row of the table
InTable(tbl, id) == tbl[id].status \in TaskStatus

\* rows the UPDATE of _claim_task_sync matches: WHERE id = ? AND status = 'pending'
ClaimMatchesNoStatus(tbl, id) == InTable(tbl, id)
ClaimMatches(tbl, id) == tbl[id].status = PENDING

\* rows the UPDATE of _reset_stuck_tasks_sync matches: WHERE status = 'processing'
ResetMatchesStarted(tbl, id) == tbl[id].started_at # NULL
ResetMatches(tbl, id) == tbl[id].status = PROCESSING

\* _claim_task_sync: <<table after the UPDATE, cursor.rowcount > 0>>
claim_task_sync(tbl, id, t) ==
    IF ClaimMatches(tbl, id)
    THEN <<[tbl EXCEPT ![id].status = PROCESSING, ![id].started_at = t], TRUE>>
    ELSE <<tbl, FALSE>>

\* _update_task_status_sync: `if status in [COMPLETED, FAILED, CANCELLED]`,
\* the statuses for which completed_at = utcnow() is part of the UPDATE
SetsCompletedAtNotCancelled(status) == status \in {COMPLETED, FAILED}
SetsCompletedAt(status) == status \in {COMPLETED, FAILED, CANCELLED}

\* _update_task_status_sync: UPDATE ... WHERE id = ?
update_task_status_sync(tbl, id, status, result, error, t) ==
    IF ~InTable(tbl, id)
    THEN <<tbl, FALSE>>
    ELSE <<[tbl EXCEPT
              ![id].status = status,
              ![id].completed_at = IF SetsCompletedAt(status) THEN t ELSE @,
              ![id].result = IF result # "null" THEN result ELSE @,
              ![id].error = IF error # "null" THEN error ELSE @],
           TRUE>>

\* the SET clause of _reset_stuck_tasks_sync
ResetRowKeepsCompletedAt(row, t) ==
    [row EXCEPT !.status = FAILED, !.error = "Processamento interrompido"]
ResetRow(row, t) ==
    [row EXCEPT !.status = FAILED, !.error = "Processamento interrompido",
                !.completed_at = t]

\* _reset_stuck_tasks_sync: UPDATE tasks SET status = 'failed', error = ...,
\* completed_at = now WHERE status = 'processing'
\* -- <<table after the UPDATE, cursor.rowcount>>
reset_stuck_tasks_sync(tbl, t) ==
    <<[id \in TaskIds |->
         IF ResetMatches(tbl, id)
         THEN ResetRow(tbl[id], t)
         ELSE tbl[id]],
      Cardinality({id \in TaskIds : ResetMatches(tbl, id)})>>

\* _cleanup_old_tasks_sync: DELETE FROM tasks WHERE status IN ('completed',
\* 'failed', 'cancelled') AND completed_at < cutoff (never true of a NULL)
cleanup_old_tasks_sync(tbl, cutoff) ==
    [id \in TaskIds |->
        IF /\ tbl[id].status \in {COMPLETED, FAILED, CANCELLED}
           /\ tbl[id].completed_at # NULL
           /\ tbl[id].completed_at < cutoff
        THEN DeletedRow
        ELSE tbl[id]]

\* the caller's call has returned and its locals are gone
Idle(c) ==
    /\ cpc' = [cpc EXCEPT ![c] = "idle"]
    /\ carg' = [carg EXCEPT ![c] = 1]
    /\ cres' = [cres EXCEPT ![c] = FALSE]
    /\ overl' = [overl EXCEPT ![c] = FALSE]

QInit ==
    /\ tasks = [id \in TaskIds |-> NoRow]
    /\ now = 0
    /\ cpc = [c \in Callers |-> "idle"]
    /\ carg = [c \in Callers |-> 1]
    /\ cres = [c \in Callers |-> FALSE]
    /\ ncalls = 0
    /\ wins = [id \in TaskIds |-> 0]
    /\ toProcessing = [id \in TaskIds |-> 0]
    /\ lostPending = [id \in TaskIds |-> FALSE]
    /\ current_progress = [c \in Callers |-> <<>>]
    /\ overl = [c \in Callers |-> FALSE]

\* the clock advances
Tick ==
    /\ now < MaxClock
    /\ now' = now + 1
    /\ UNCHANGED <<tasks, cpc, carg, cres, ncalls, wins, toProcessing, lostPending, overl, current_progress>>
    /\ UNCHANGED notq

\* create_task: a new pending row
CreateTask(id) ==
    /\ tasks[id].status = "absent"
    /\ \A j \in TaskIds : j < id => tasks[j].status # "absent"
    /\ tasks' = [tasks EXCEPT ![id] = NewTask(now)]
    /\ UNCHANGED <<now, cpc, carg, cres, ncalls, wins, toProcessing, lostPending, overl, current_progress>>
    /\ UNCHANGED notq

\* claim_task(id) is called: the statement is handed to the thread pool
ClaimCall(c, id) ==
    /\ cpc[c] = "idle"
    /\ ncalls < MaxCalls
    /\ tasks[id].status # "absent"
    /\ cpc' = [cpc EXCEPT ![c] = "claim"]
    /\ carg' = [carg EXCEPT ![c] = id]
    /\ ncalls' = ncalls + 1
    /\ overl' = [d \in Callers |->
                  IF d = c THEN \E e \in Callers \ {c} : cpc[e] = "claim" /\ carg[e] = id
                  ELSE overl[d] \/ (cpc[d] = "claim" /\ carg[d] = id)]
    /\ UNCHANGED <<tasks, now, cres, wins, toProcessing, lostPending, current_progress>>
    /\ UNCHANGED notq

\* _claim_task_sync runs as one transaction and its result reaches the caller
ClaimExec(c) ==
    /\ cpc[c] = "claim"
    /\ LET id == carg[c]
           r == claim_task_sync(tasks, id, now)
       IN /\ tasks' = r[1]
          /\ cres' = [cres EXCEPT ![c] = r[2]]
          /\ wins' = [wins EXCEPT ![id] = IF r[2] THEN @ + 1 ELSE @]
          /\ toProcessing' = [toProcessing EXCEPT ![id] =
                 IF tasks[id].status = PENDING /\ r[1][id].status = PROCESSING
                 THEN @ + 1 ELSE @]
          /\ lostPending' = [lostPending EXCEPT ![id] =
                 @ \/ (tasks[id].status = PENDING /\ ~r[2])]
    /\ cpc' = [cpc EXCEPT ![c] = "claimed"]
    /\ UNCHANGED <<now, carg, ncalls, overl, current_progress>>
    /\ UNCHANGED notq

\* the caller that lost the claim moves on
ClaimLost(c) ==
    /\ cpc[c] = "claimed"
    /\ ~cres[c]
    /\ Idle(c)
    /\ UNCHANGED <<tasks, now, ncalls, wins, toProcessing, lostPending, current_progress>>
    /\ UNCHANGED notq

\* the caller that won the claim finishes the task: update_task_status with
\* COMPLETED and a result, or with FAILED and an error
UpdateStatus(c, status) ==
    /\ cpc[c] = "claimed"
    /\ cres[c]
    /\ tasks' = update_task_status_sync(tasks, carg[c], status,
                    IF status = COMPLETED THEN "reply" ELSE "null",
                    IF status = FAILED THEN "error" ELSE "null", now)[1]
    /\ Idle(c)
    /\ UNCHANGED <<now, ncalls, wins, toProcessing, lostPending, current_progress>>
    /\ UNCHANGED notq

\* cancel_task endpoint, first half: get_task and the check status == PENDING
CancelRead(c, id) ==
    /\ cpc[c] = "idle"
    /\ ncalls < MaxCalls
    /\ tasks[id].status = PENDING
    /\ cpc' = [cpc EXCEPT ![c] = "cancel_read"]
    /\ carg' = [carg EXCEPT ![c] = id]
    /\ ncalls' = ncalls + 1
    /\ UNCHANGED <<tasks, now, cres, wins, toProcessing, lostPending, overl, current_progress>>
    /\ UNCHANGED notq

\* cancel_task endpoint, second half: task_queue.cancel_task(id), which is
\* update_task_status(id, CANCELLED, error=...)
CancelWrite(c) ==
    /\ cpc[c] = "cancel_read"
    /\ tasks' = update_task_status_sync(tasks, carg[c], CANCELLED, "null", "cancelled by user", now)[1]
    /\ Idle(c)
    /\ UNCHANGED <<now, ncalls, wins, toProcessing, lostPending, current_progress>>
    /\ UNCHANGED notq

\* reset_stuck_tasks() runs as one transaction; its count reaches the caller
ResetStuck(c) ==
    /\ cpc[c] = "idle"
    /\ ncalls < MaxCalls
    /\ ncalls' = ncalls + 1
    /\ LET r == reset_stuck_tasks_sync(tasks, now)
       IN  /\ tasks' = r[1]
           /\ cres' = [cres EXCEPT ![c] = r[2]]
    /\ cpc' = [cpc EXCEPT ![c] = "reset_done"]
    /\ UNCHANGED <<now, carg, wins, toProcessing, lostPending, overl, current_progress>>
    /\ UNCHANGED notq

\* the caller of reset_stuck_tasks moves on
ResetDone(c) ==
    /\ cpc[c] = "reset_done"
    /\ Idle(c)
    /\ UNCHANGED <<tasks, now, ncalls, wins, toProcessing, lostPending, current_progress>>
    /\ UNCHANGED notq

\* _add_progress_sync, first statement: SELECT progress FROM tasks WHERE id = ?
\* outside of a transaction; without a row the call returns False, else
\* current_progress is the stored list with the new entry appended.  The
\* entry (timestamp, message, step_type) is stood for by the number of the call.
AddProgressSelect(c, id) ==
    /\ cpc[c] = "idle"
    /\ ncalls < MaxCalls
    /\ tasks[id].status # "absent"
    /\ ncalls' = ncalls + 1
    /\ IF InTable(tasks, id)
       THEN /\ cpc' = [cpc EXCEPT ![c] = "add_progress"]
            /\ carg' = [carg EXCEPT ![c] = id]
            /\ current_progress' =
                   [current_progress EXCEPT ![c] = Append(tasks[id].progress, ncalls')]
       ELSE UNCHANGED <<cpc, carg, current_progress>>
    /\ UNCHANGED <<tasks, now, cres, wins, toProcessing, lostPending, overl>>
    /\ UNCHANGED notq

\* _add_progress_sync, second statement: UPDATE tasks SET progress = ? WHERE
\* id = ?, committed when the `with` block is left
AddProgressUpdate(c) ==
    /\ cpc[c] = "add_progress"
    /\ tasks' = IF InTable(tasks, carg[c])
                THEN [tasks EXCEPT ![carg[c]].progress = current_progress[c]]
                ELSE tasks
    /\ current_progress' = [current_progress EXCEPT ![c] = <<>>]
    /\ Idle(c)
    /\ UNCHANGED <<now, ncalls, wins, toProcessing, lostPending>>
    /\ UNCHANGED notq

\* cleanup_old_tasks(hours) runs as one transaction, cutoff = utcnow() - hours
CleanupOld(hours) ==
    /\ ncalls < MaxCalls
    /\ ncalls' = ncalls + 1
    /\ tasks' = cleanup_old_tasks_sync(tasks, now - hours)
    /\ UNCHANGED <<now, cpc, carg, cres, wins, toProcessing, lostPending, overl, current_progress>>
    /\ UNCHANGED notq

QNext ==
    \/ Tick
    \/ \E id \in RequestIds : CreateTask(id)
    \/ \E c \in Callers, id \in RequestIds : ClaimCall(c, id)
    \/ \E c \in Callers : ClaimExec(c)
    \/ \E c \in Callers : ClaimLost(c)
    \/ \E c \in Callers, s \in {COMPLETED, FAILED} : UpdateStatus(c, s)
    \/ \E c \in Callers, id \in RequestIds : CancelRead(c, id)
    \/ \E c \in Callers : CancelWrite(c)
    \/ \E c \in Callers : ResetStuck(c)
    \/ \E c \in Callers : ResetDone(c)
    \/ \E hours \in 0..MaxClock : CleanupOld(hours)

\* ------------------------------------------------------ connection manager
WsInit ==
    /\ connections = [c \in Convs |-> {}]
    /\ conn_keys = {}
    /\ ws_to_conversation = [s \in Socks |-> "none"]
    /\ all_sockets = {}
    /\ lock = FREE
    /\ sock = [s \in Socks |-> "CONNECTED"]
    /\ pc = [p \in AllProcs |-> "idle"]
    /\ arg_ws = [p \in AllProcs |-> 1]
    /\ arg_conv = [p \in AllProcs |-> "A"]
    /\ todo = [p \in AllProcs |-> {}]
    /\ targets = [p \in AllProcs |-> {}]
    /\ sent = [p \in AllProcs |-> {}]
    /\ count = [p \in AllProcs |-> 0]
    /\ dead = [p \in AllProcs |-> {}]
    /\ bret = [p \in AllProcs |-> "idle"]
    /\ dret = [p \in AllProcs |-> "idle"]
    /\ nops = 0
    /\ message = [p \in AllProcs |-> 0]

\* the peer of a registered connection closes it: client_state leaves CONNECTED
PeerClose(s) ==
    /\ s \in all_sockets
    /\ sock[s] = "CONNECTED"
    /\ sock' = [sock EXCEPT ![s] = "DISCONNECTED"]
    /\ UNCHANGED <<connections, conn_keys, ws_to_conversation, all_sockets, lock, pc,
                   arg_ws, arg_conv, todo, targets, sent, count, dead, bret, dret, nops, message>>
    /\ UNCHANGED notws

\* the transport of the peer dies: client_state is still CONNECTED, send_json raises
PeerBreak(s) ==
    /\ s \in all_sockets
    /\ sock[s] = "CONNECTED"
    /\ sock' = [sock EXCEPT ![s] = "BROKEN"]
    /\ UNCHANGED <<connections, conn_keys, ws_to_conversation, all_sockets, lock, pc,
                   arg_ws, arg_conv, todo, targets, sent, count, dead, bret, dret, nops, message>>
    /\ UNCHANGED notws

\* the task that issues the next call: tasks without a call in flight do not
\* differ, so the first of them is taken
FirstIdle(p) == pc[p] = "idle" /\ \A q \in WsProcs : q < p => pc[q] # "idle"

\* a task calls connect(websocket, conversation_id) (also switch_conversation)
CallConnect(p, s, c) ==
    /\ FirstIdle(p)
    /\ nops < MaxOps
    /\ nops' = nops + 1
    /\ pc' = [pc EXCEPT ![p] = "connect"]
    /\ arg_ws' = [arg_ws EXCEPT ![p] = s]
    /\ arg_conv' = [arg_conv EXCEPT ![p] = c]
    /\ UNCHANGED <<connections, conn_keys, ws_to_conversation, all_sockets, lock, sock,
                   todo, targets, sent, count, dead, bret, dret, message>>
    /\ UNCHANGED notws

\* connect: `if websocket in self._ws_to_conversation:
\* self._connections[old_conv_id].discard(websocket)`
KeptInOld(conns, old, s) == conns
RemovedFromOld(conns, old, s) ==
    IF old # "none" THEN [conns EXCEPT ![old] = @ \ {s}] ELSE conns

\* connect: the body under `async with self._lock`
Connect(p) ==
    /\ pc[p] = "connect"
    /\ lock = FREE
    /\ LET s == arg_ws[p]
           c == arg_conv[p]
           old == ws_to_conversation[s]
           removed == RemovedFromOld(connections, old, s)
       IN /\ connections' = [removed EXCEPT ![c] = @ \cup {s}]
          /\ conn_keys' = conn_keys \cup {c}
          /\ ws_to_conversation' = [ws_to_conversation EXCEPT ![s] = c]
          /\ all_sockets' = all_sockets \cup {s}
    /\ pc' = [pc EXCEPT ![p] = "idle"]
    /\ arg_ws' = [arg_ws EXCEPT ![p] = 1]
    /\ arg_conv' = [arg_conv EXCEPT ![p] = "A"]
    /\ UNCHANGED <<lock, sock, todo, targets, sent, count, dead, bret, dret, nops, message>>
    /\ UNCHANGED notws

\* a task calls disconnect(websocket)
CallDisconnect(p, s) ==
    /\ FirstIdle(p)
    /\ nops < MaxOps
    /\ nops' = nops + 1
    /\ pc' = [pc EXCEPT ![p] = "disconnect"]
    /\ arg_ws' = [arg_ws EXCEPT ![p] = s]
    /\ dret' = [dret EXCEPT ![p] = "idle"]
    /\ UNCHANGED <<connections, conn_keys, ws_to_conversation, all_sockets, lock, sock,
                   arg_conv, todo, targets, sent, count, dead, bret, message>>
    /\ UNCHANGED notws

\* the lock a task needs to enter `async with self._lock` of disconnect: an
\* asyncio.Lock is not reentrant, the holder itself waits as well
DisconnectMayEnterReentrant(p) == lock \in {FREE, p}
DisconnectMayEnter(p) == lock = FREE

\* disconnect: `self._all_sockets.discard(websocket)`
KeptInGlobal(all, s) == all
Discarded(all, s) == all \ {s}

\* disconnect: the body under `async with self._lock`; the lock is as before
\* when the body is left
Disconnect(p) ==
    /\ pc[p] = "disconnect"
    /\ DisconnectMayEnter(p)
    /\ LET s == arg_ws[p]
           c == ws_to_conversation[s]
       IN /\ connections' = IF c # "none" THEN [connections EXCEPT ![c] = @ \ {s}]
                            ELSE connections
          /\ conn_keys' = IF c # "none" /\ connections[c] \ {s} = {}
                          THEN conn_keys \ {c} ELSE conn_keys
          /\ ws_to_conversation' = [ws_to_conversation EXCEPT ![s] = "none"]
          /\ all_sockets' = Discarded(all_sockets, s)
          /\ dead' = [dead EXCEPT ![p] = @ \ {s}]
    /\ pc' = [pc EXCEPT ![p] = dret[p]]
    /\ arg_ws' = [arg_ws EXCEPT ![p] = 1]
    /\ dret' = [dret EXCEPT ![p] = "idle"]
    /\ UNCHANGED <<lock, sock, arg_conv, todo, targets, sent, count, bret, nops, message>>
    /\ UNCHANGED notws

\* _broadcast_to_sockets is entered: count = 0, dead_connections = set(),
\* connections = list(sockets); the task goes on at `back` when it returns
EnterBroadcast(p, sockets, back) ==
    /\ todo' = [todo EXCEPT ![p] = sockets]
    /\ targets' = [targets EXCEPT ![p] = sockets]
    /\ sent' = [sent EXCEPT ![p] = {}]
    /\ count' = [count EXCEPT ![p] = 0]
    /\ dead' = [dead EXCEPT ![p] = {}]
    /\ bret' = [bret EXCEPT ![p] = back]
    /\ message' = [message EXCEPT ![p] = IF p \in WsProcs THEN nops' ELSE @]
    /\ pc' = [pc EXCEPT ![p] = IF sockets = {} THEN "bcast_cleanup" ELSE "bcast_loop"]

\* broadcast_to_conversation / broadcast_globally return 0 without a broadcast
ReturnZero(p, back) ==
    /\ pc' = [pc EXCEPT ![p] = back]
    /\ UNCHANGED <<todo, targets, sent, count, dead, bret, message>>

\* a task calls broadcast_to_conversation(conversation_id, message)
CallBroadcastConv(p, c) ==
    /\ FirstIdle(p)
    /\ nops < MaxOps
    /\ nops' = nops + 1
    /\ IF c \notin conn_keys
       THEN ReturnZero(p, "idle")
       ELSE EnterBroadcast(p, connections[c], "idle")
    /\ UNCHANGED <<connections, conn_keys, ws_to_conversation, all_sockets, lock, sock,
                   arg_ws, arg_conv, dret>>
    /\ UNCHANGED notws

\* the set broadcast_globally hands to _broadcast_to_sockets: self._all_sockets
SocketsOfFirstConversation == connections["A"]
GlobalSockets == all_sockets

\* broadcast_globally(message), called by send_task_progress and send_task_status
broadcast_globally(p, back) ==
    /\ IF GlobalSockets = {}
       THEN ReturnZero(p, back)
       ELSE EnterBroadcast(p, GlobalSockets, back)
    /\ UNCHANGED <<connections, conn_keys, ws_to_conversation, all_sockets, lock, sock,
                   arg_ws, arg_conv, dret>>

\* a task calls broadcast_globally(message)
CallBroadcastGlobal(p) ==
    /\ FirstIdle(p)
    /\ nops < MaxOps
    /\ nops' = nops + 1
    /\ broadcast_globally(p, "idle")
    /\ UNCHANGED notws

\* what the loop of _broadcast_to_sockets does after a send that raised:
\* the except clause keeps the loop going
AfterRaiseAbort(remaining) == {}
AfterRaise(remaining) == remaining

\* one turn of `for websocket in connections`: the client_state test, send_json
BcastSend(p) ==
    /\ pc[p] = "bcast_loop"
    /\ \E s \in todo[p] :
        LET rest == todo[p] \ {s} IN
        /\ IF sock[s] = "CONNECTED"
           THEN /\ sent' = [sent EXCEPT ![p] = @ \cup {s}]
                /\ count' = [count EXCEPT ![p] = @ + 1]
                /\ todo' = [todo EXCEPT ![p] = rest]
                /\ pc' = [pc EXCEPT ![p] = IF rest = {} THEN "bcast_cleanup" ELSE @]
                /\ UNCHANGED dead
           ELSE /\ dead' = [dead EXCEPT ![p] = @ \cup {s}]
                /\ LET left == IF sock[s] = "BROKEN" THEN AfterRaise(rest) ELSE rest IN
                   /\ todo' = [todo EXCEPT ![p] = left]
                   /\ pc' = [pc EXCEPT ![p] = IF left = {} THEN "bcast_cleanup" ELSE @]
                /\ UNCHANGED <<sent, count>>
    /\ UNCHANGED <<connections, conn_keys, ws_to_conversation, all_sockets, lock, sock,
                   arg_ws, arg_conv, targets, bret, dret, nops, message>>
    /\ UNCHANGED notws

\* after the loop: `if dead_connections: async with self._lock: for ws in
\* dead_connections: await self.disconnect(ws)`, then `return count` (the
\* value returned is count[p] as it is when this step is taken).  The
\* task is here when the loop has ended and again each time one of these
\* disconnect calls has returned.
BcastCleanup(p) ==
    /\ pc[p] = "bcast_cleanup"
    /\ IF dead[p] = {}
       THEN /\ lock' = IF lock = p THEN FREE ELSE lock
            /\ pc' = [pc EXCEPT ![p] = bret[p]]
            /\ targets' = [targets EXCEPT ![p] = {}]
            /\ sent' = [sent EXCEPT ![p] = {}]
            /\ count' = [count EXCEPT ![p] = 0]
            /\ bret' = [bret EXCEPT ![p] = "idle"]
            /\ message' = [message EXCEPT ![p] = 0]
            /\ UNCHANGED <<arg_ws, dret>>
       ELSE /\ lock \in {FREE, p}
            /\ lock' = p
            /\ \E s \in dead[p] : arg_ws' = [arg_ws EXCEPT ![p] = s]
            /\ dret' = [dret EXCEPT ![p] = "bcast_cleanup"]
            /\ pc' = [pc EXCEPT ![p] = "disconnect"]
            /\ UNCHANGED <<targets, sent, count, bret, message>>
    /\ UNCHANGED <<connections, conn_keys, ws_to_conversation, all_sockets, sock,
                   arg_conv, todo, dead, nops>>
    /\ UNCHANGED notws

WsNext ==
    \/ \E s \in Socks : PeerClose(s)
    \/ \E s \in Socks : PeerBreak(s)
    \/ \E p \in WsProcs, s \in Socks, c \in Convs : CallConnect(p, s, c)
    \/ \E p \in WsProcs : Connect(p)
    \/ \E p \in WsProcs, s \in Socks : CallDisconnect(p, s)
    \/ \E p \in WsProcs : Disconnect(p)
    \/ \E p \in WsProcs, c \in Convs : CallBroadcastConv(p, c)
    \/ \E p \in WsProcs : CallBroadcastGlobal(p)
    \/ \E p \in WsProcs : BcastSend(p)
    \/ \E p \in WsProcs : BcastCleanup(p)


\* ------------------------------------------------------------ orchestrator
\* tools the registry knows (TOOLS_BY_NAME), and the names a model may emit
TOOLS_BY_NAME == {"finish_task", "execute_shell"}
ToolNames == TOOLS_BY_NAME \cup {"no_such_tool"}

\* function.arguments of a tool call: a JSON object, JSON that is not an
\* object, or a string json.loads rejects
ArgsKinds == {"object", "not_object", "not_json"}

\* what tool.execute does: returns success=True, returns success=False, raises
Behaviours == {"succeeds", "fails", "raises"}

\* FinishTaskTool.execute returns success=True or raises (a missing argument)
BehavioursOf(name) ==
    IF name = "finish_task" THEN {"succeeds", "raises"} ELSE Behaviours

\* the ways a model call fails in _call_model_with_retry
ModelFailures == {"timeout", "empty", "malformed", "exception"}

\* contents of the values process_message returns
FINAL == "final answer"
ALL_FAILED == "Erro: Todos os modelos falharam"
CANCELLED_MSG == "Processamento cancelado pelo usuario."
ITERATION_LIMIT == "Desculpe, a operacao excedeu o limite de iteracoes."

\* `while iteration < max_iterations`
LoopContinuesOneMore(it) == it <= max_iterations
LoopContinues(it) == it < max_iterations

\* `for attempt in range(max_attempts)`: another attempt follows `made` calls
MoreAttemptsNoRetry(made) == made < 1
MoreAttempts(made) == made < max_attempts

\* execute_tool(name, args)
execute_tool(name, behaviour) ==
    IF name \notin TOOLS_BY_NAME
    THEN [success |-> FALSE, error |-> "Tool nao encontrada", output |-> ""]
    ELSE IF behaviour = "raises"
    THEN [success |-> FALSE, error |-> "error", output |-> ""]
    ELSE IF behaviour = "fails"
    THEN [success |-> FALSE, error |-> "error", output |-> ""]
    ELSE IF name = "finish_task"
    THEN [success |-> TRUE, error |-> "", output |-> "Tarefa finalizada"]
    ELSE [success |-> TRUE, error |-> "", output |-> "output"]

\* the body of the try block of one tool call and its except clauses: the
\* value of tool_result afterwards
ToolResultOf(name, args, behaviour) ==
    IF args = "not_json" THEN "Erro ao parsear argumentos"
    ELSE IF args = "not_object" THEN "Erro ao executar"
    ELSE LET result == execute_tool(name, behaviour)
         IN  IF result.success THEN result.output ELSE "Erro: " \o result.error

\* the step types _send_log_feedback hands to the progress sink during the
\* try block of one tool call: "tool_start" once the arguments are decoded,
\* then "tool_end" when result.get("success"), "error" otherwise
StepTypesOf(name, args, behaviour) ==
    IF args # "object" THEN <<>>
    ELSE LET result == execute_tool(name, behaviour)
         IN  <<"tool_start", IF result.success THEN "tool_end" ELSE "error">>

\* messages.append({"role": "tool", "tool_call_id": tool_id, "content": tool_result})
AppendToolMessageDropped(msgs, id, content) == msgs
AppendToolMessage(msgs, id, content) ==
    Append(msgs, [role |-> "tool", tool_call_id |-> id, content |-> content])

\* cleanup_resources(conversation.id)
cleanup_resources(n) == n + 1

ToolCallIds(msgs) == {msgs[k].tool_call_id : k \in DOMAIN msgs}

OInit ==
    /\ opc = "idle"
    /\ iteration = 0
    /\ websocket = "None"
    /\ cancel_state = FALSE
    /\ tier = 0
    /\ calls = <<0, 0, 0>>
    /\ n_tool_calls = 0
    /\ tool_idx = 0
    /\ tool_name = ""
    /\ tool_result = ""
    /\ tool_messages = <<>>
    /\ releases = 0
    /\ returned = ""
    /\ require_completion_tool = "omitted"
    /\ step_types = <<>>

Running == opc \notin {"idle", "returned", "raised"}

\* the keyword arguments process_message is called with besides its
\* parameters: none, or require_completion_tool=True / =False
CompletionKwargs == {"omitted", "True", "False"}

\* the parameters of process_message: binding any other keyword raises TypeError
ProcessMessageAccepts(kw) == kw = "omitted"

\* process_message(conversation, websocket, custom_models, cancel_state, ...)
\* is called, with a websocket or with None; up to `iteration = 0`.  A call
\* with a keyword the signature does not have raises TypeError before the
\* body runs.
ProcessMessage(ws, kw) ==
    /\ opc = "idle"
    /\ opc' = IF ProcessMessageAccepts(kw) THEN "while" ELSE "raised"
    /\ websocket' = ws
    /\ require_completion_tool' = kw
    /\ UNCHANGED <<iteration, cancel_state, tier, calls, n_tool_calls, tool_idx,
                   tool_name, tool_result, tool_messages, releases, returned, step_types>>
    /\ UNCHANGED noto

\* the peer of the websocket goes away during the run: send_json raises from now on
WsGone ==
    /\ Running
    /\ websocket = "open"
    /\ websocket' = "closed"
    /\ UNCHANGED <<opc, iteration, cancel_state, tier, calls, n_tool_calls, tool_idx,
                   tool_name, tool_result, tool_messages, releases, returned>>
    /\ UNCHANGED <<require_completion_tool, step_types, noto>>

\* the owner of cancel_state sets cancel_state["cancelled"] during the run
SetCancelled ==
    /\ Running
    /\ ~cancel_state
    /\ cancel_state' = TRUE
    /\ UNCHANGED <<opc, iteration, websocket, tier, calls, n_tool_calls, tool_idx,
                   tool_name, tool_result, tool_messages, releases, returned>>
    /\ UNCHANGED <<require_completion_tool, step_types, noto>>

\* the loop test, `iteration += 1` and the cancellation check; after the loop
\* cleanup_resources and the iteration-limit message
WhileTop ==
    /\ opc = "while"
    /\ IF LoopContinues(iteration)
       THEN /\ iteration' = iteration + 1
            /\ IF cancel_state
               THEN /\ releases' = cleanup_resources(releases)
                    /\ returned' = CANCELLED_MSG
                    /\ opc' = "returned"
                    /\ UNCHANGED <<tier, calls, n_tool_calls, tool_messages>>
               ELSE /\ opc' = "call_model"
                    /\ tier' = 1
                    /\ calls' = <<0, 0, 0>>
                    /\ n_tool_calls' = 0
                    /\ tool_messages' = <<>>
                    /\ UNCHANGED <<releases, returned>>
       ELSE /\ releases' = cleanup_resources(releases)
            /\ returned' = ITERATION_LIMIT
            /\ opc' = "returned"
            /\ UNCHANGED <<iteration, tier, calls, n_tool_calls, tool_messages>>
    /\ UNCHANGED <<websocket, cancel_state, tool_idx, tool_name, tool_result>>
    /\ UNCHANGED <<require_completion_tool, step_types, noto>>

\* one chat_completion call of _call_model_with_retry that gives a valid
\* response, with n tool calls: the cascade ends
CallModelAccepted(n) ==
    /\ opc = "call_model"
    /\ calls' = [calls EXCEPT ![tier] = @ + 1]
    /\ n_tool_calls' = n
    /\ opc' = "response"
    /\ UNCHANGED <<iteration, websocket, cancel_state, tier, tool_idx, tool_name,
                   tool_result, tool_messages, releases, returned>>
    /\ UNCHANGED <<require_completion_tool, step_types, noto>>

\* one chat_completion call that times out, raises, or gives an empty or a
\* malformed response: one more attempt, or the next tier, or all tiers failed
CallModelFailed(how) ==
    /\ opc = "call_model"
    /\ calls' = [calls EXCEPT ![tier] = @ + 1]
    /\ IF MoreAttempts(calls'[tier])
       THEN UNCHANGED <<opc, tier, releases, returned>>
       ELSE IF tier < 3
       THEN /\ tier' = tier + 1
            /\ UNCHANGED <<opc, releases, returned>>
       ELSE /\ releases' = cleanup_resources(releases)
            /\ returned' = ALL_FAILED
            /\ opc' = "returned"
            /\ UNCHANGED tier
    /\ UNCHANGED <<iteration, websocket, cancel_state, n_tool_calls, tool_idx,
                   tool_name, tool_result, tool_messages>>
    /\ UNCHANGED <<require_completion_tool, step_types, noto>>

\* the accepted response is looked at: without tool calls it is the final
\* answer; with tool calls the assistant message is appended
Response ==
    /\ opc = "response"
    /\ IF n_tool_calls = 0
       THEN /\ releases' = cleanup_resources(releases)
            /\ returned' = FINAL
            /\ opc' = "returned"
            /\ UNCHANGED tool_idx
       ELSE /\ tool_idx' = 1
            /\ opc' = "tool_start"
            /\ UNCHANGED <<releases, returned>>
    /\ tier' = 0
    /\ calls' = <<0, 0, 0>>
    /\ UNCHANGED <<iteration, websocket, cancel_state, n_tool_calls, tool_name,
                   tool_result, tool_messages>>
    /\ UNCHANGED <<require_completion_tool, step_types, noto>>

\* `for tool_call in tool_calls`: the call is read and tool_start is sent to
\* the websocket, outside of any try
ToolStart(name) ==
    /\ opc = "tool_start"
    /\ IF websocket = "closed"
       THEN /\ opc' = "raised"
            /\ UNCHANGED tool_name
       ELSE /\ opc' = "execute_tool"
            /\ tool_name' = name
    /\ UNCHANGED <<iteration, websocket, cancel_state, tier, calls, n_tool_calls,
                   tool_idx, tool_result, tool_messages, releases, returned>>
    /\ UNCHANGED <<require_completion_tool, step_types, noto>>

\* the try block: the arguments are decoded, execute_tool runs, the result is
\* formatted; the except clauses
ExecuteTool(args, behaviour) ==
    /\ opc = "execute_tool"
    /\ behaviour \in BehavioursOf(tool_name)
    /\ tool_result' = ToolResultOf(tool_name, args, behaviour)
    /\ step_types' = StepTypesOf(tool_name, args, behaviour)
    /\ opc' = "tool_result"
    /\ UNCHANGED <<iteration, websocket, cancel_state, tier, calls, n_tool_calls,
                   tool_idx, tool_name, tool_messages, releases, returned>>
    /\ UNCHANGED <<require_completion_tool, noto>>

\* tool_result is sent to the websocket, outside of any try, and the tool
\* message is appended; then the next tool call, or the next iteration
SendAndAppend ==
    /\ opc = "tool_result"
    /\ IF websocket = "closed"
       THEN /\ opc' = "raised"
            /\ UNCHANGED <<tool_messages, tool_idx>>
       ELSE /\ tool_messages' = AppendToolMessage(tool_messages, tool_idx, tool_result)
            /\ IF tool_idx < n_tool_calls
               THEN /\ tool_idx' = tool_idx + 1
                    /\ opc' = "tool_start"
               ELSE /\ tool_idx' = 0
                    /\ opc' = "while"
    /\ tool_name' = ""
    /\ tool_result' = ""
    /\ step_types' = <<>>
    /\ UNCHANGED <<iteration, websocket, cancel_state, tier, calls, n_tool_calls,
                   releases, returned>>
    /\ UNCHANGED <<require_completion_tool, noto>>

ONext ==
    \/ \E ws \in {"None", "open"}, kw \in CompletionKwargs : ProcessMessage(ws, kw)
    \/ WsGone
    \/ SetCancelled
    \/ WhileTop
    \/ \E n \in 0..MaxToolCalls : CallModelAccepted(n)
    \/ \E how \in ModelFailures : CallModelFailed(how)
    \/ Response
    \/ \E name \in ToolNames : ToolStart(name)
    \/ \E args \in ArgsKinds, behaviour \in Behaviours : ExecuteTool(args, behaviour)
    \/ SendAndAppend

\* ------------------------------------------------------- background worker
Min(a, b) == IF a < b THEN a ELSE b

\* _get_pending_tasks_sync: `WHERE status = 'pending'`
PendingMatchesActive(tbl, id) == tbl[id].status \in {PENDING, PROCESSING}
PendingMatches(tbl, id) == tbl[id].status = PENDING

\* _get_pending_tasks_sync: SELECT ... WHERE status = 'pending' ORDER BY
\* created_at ASC LIMIT ?  -- the lists of ids it can return (rows with equal
\* created_at come in any order)
get_pending_tasks_sync(tbl, limit) ==
    LET P == {id \in TaskIds : PendingMatches(tbl, id)}
        n == Min(limit, Cardinality(P))
    IN  {L \in [1..n -> P] :
           /\ \A i, j \in 1..n : i < j =>
                  /\ L[i] # L[j]
                  /\ tbl[L[i]].created_at <= tbl[L[j]].created_at
           /\ \A b \in P \ {L[i] : i \in 1..n} :
                  \A i \in 1..n : tbl[L[i]].created_at <= tbl[b].created_at}

\* what stops _process_task before process_message runs: load_conversation
\* returns None (ValueError), load_conversation raises, or the call of
\* process_message with require_completion_tool=True, a parameter it does
\* not have (TypeError)
UnitErrors == {"Conversa nao encontrada", "store error", "TypeError"}

WkInitWith(max) ==
    /\ max_concurrent_tasks = max
    /\ wpc = "poll"
    /\ pending_tasks = <<>>
    /\ active_tasks = {}
    /\ issued = [id \in TaskIds |-> {}]
    /\ error_msg = [id \in TaskIds |-> "null"]

\* the worker get_background_worker() constructs
WkInit == WkInitWith(singleton_max_concurrent_tasks)

\* _main_loop: available_slots = self.max_concurrent_tasks - len(self._active_tasks)
AvailableSlotsIgnoringActive(max, active) == max
AvailableSlots(max, active) == max - Cardinality(active)

\* _main_loop: `while self._running`, available_slots and
\* get_pending_tasks(limit=available_slots)
GetPendingTasks ==
    /\ wpc = "poll"
    /\ running
    /\ LET available_slots == AvailableSlots(max_concurrent_tasks, active_tasks)
       IN  /\ available_slots > 0
           /\ \E L \in get_pending_tasks_sync(tasks, available_slots) :
                 pending_tasks' = L
    /\ wpc' = "claiming"
    /\ UNCHANGED <<active_tasks, issued, error_msg, max_concurrent_tasks>>
    /\ UNCHANGED <<qvars, wsvars, ovars, hvars, cvars, svars, kvars, rvars>>

\* _main_loop: `if await claim_task(task.id)`: create_task(_process_task(task))
\* and self._active_tasks[task.id] = async_task
ClaimTask(id) ==
    /\ wpc = "claiming"
    /\ pending_tasks # <<>> /\ id = Head(pending_tasks)
    /\ pending_tasks' = Tail(pending_tasks)
    /\ LET r == claim_task_sync(tasks, id, now)
       IN  /\ tasks' = r[1]
           /\ IF r[2]
              THEN /\ active_tasks' = active_tasks \cup {id}
                   /\ pc' = [pc EXCEPT ![UnitOf(id)] = "unit_start"]
                   /\ wins' = [wins EXCEPT ![id] = @ + 1]
                   /\ toProcessing' = [toProcessing EXCEPT ![id] = @ + 1]
              ELSE UNCHANGED <<active_tasks, pc, wins, toProcessing>>
    /\ UNCHANGED <<wpc, issued, error_msg, max_concurrent_tasks>>
    /\ UNCHANGED <<now, cpc, carg, cres, ncalls, lostPending, overl, current_progress>>
    /\ UNCHANGED <<connections, conn_keys, ws_to_conversation, all_sockets, lock, sock,
                   arg_ws, arg_conv, todo, targets, sent, count, dead, bret, dret, nops, message>>
    /\ UNCHANGED <<ovars, hvars, cvars, svars, kvars, rvars>>

\* _main_loop: the for loop has ended, asyncio.sleep(poll_interval)
Sleep ==
    /\ wpc = "claiming"
    /\ pending_tasks = <<>>
    /\ wpc' = "poll"
    /\ UNCHANGED <<pending_tasks, active_tasks, issued, error_msg, max_concurrent_tasks>>
    /\ UNCHANGED <<qvars, wsvars, ovars, hvars, cvars, svars, kvars, rvars>>

\* _process_task: send_task_status(..., PROCESSING)
UnitSendProcessing(id) ==
    /\ pc[UnitOf(id)] = "unit_start"
    /\ issued' = [issued EXCEPT ![id] = @ \cup {PROCESSING}]
    /\ UNCHANGED <<nops, wpc, pending_tasks, active_tasks, error_msg, max_concurrent_tasks>>
    /\ broadcast_globally(UnitOf(id), "unit_run")
    /\ UNCHANGED <<qvars, ovars, hvars, cvars, svars, kvars, rvars>>

\* _process_task: load_conversation up to the call of process_message; each
\* way this goes ends in the except clause, with error_msg = str(e)
UnitRun(id, e) ==
    /\ pc[UnitOf(id)] = "unit_run"
    /\ error_msg' = [error_msg EXCEPT ![id] = e]
    /\ pc' = [pc EXCEPT ![UnitOf(id)] = "unit_except"]
    /\ UNCHANGED <<wpc, pending_tasks, active_tasks, issued, max_concurrent_tasks>>
    /\ UNCHANGED <<connections, conn_keys, ws_to_conversation, all_sockets, lock, sock,
                   arg_ws, arg_conv, todo, targets, sent, count, dead, bret, dret, nops, message>>
    /\ UNCHANGED <<qvars, ovars, hvars, cvars, svars, kvars, rvars>>

\* the except clause: update_task_status(task.id, FAILED, error=error_msg)
UnitMarkFailed(id) ==
    /\ pc[UnitOf(id)] = "unit_except"
    /\ tasks' = update_task_status_sync(tasks, id, FAILED, "null", error_msg[id], now)[1]
    /\ pc' = [pc EXCEPT ![UnitOf(id)] = "unit_failed"]
    /\ UNCHANGED <<wpc, pending_tasks, active_tasks, issued, error_msg, max_concurrent_tasks>>
    /\ UNCHANGED <<now, cpc, carg, cres, ncalls, wins, toProcessing, lostPending, overl, current_progress>>
    /\ UNCHANGED <<connections, conn_keys, ws_to_conversation, all_sockets, lock, sock,
                   arg_ws, arg_conv, todo, targets, sent, count, dead, bret, dret, nops, message>>
    /\ UNCHANGED <<ovars, hvars, cvars, svars, kvars, rvars>>

\* the except clause: send_task_status(..., FAILED, error=error_msg)
UnitSendFailed(id) ==
    /\ pc[UnitOf(id)] = "unit_failed"
    /\ issued' = [issued EXCEPT ![id] = @ \cup {FAILED}]
    /\ UNCHANGED <<nops, wpc, pending_tasks, active_tasks, error_msg, max_concurrent_tasks>>
    /\ broadcast_globally(UnitOf(id), "unit_exit")
    /\ UNCHANGED <<qvars, ovars, hvars, cvars, svars, kvars, rvars>>

\* _on_task_done: self._active_tasks.pop(task_id, None)
on_task_done_kept(active, task_id) == active
on_task_done(active, task_id) == active \ {task_id}

\* _process_task returns; the done callback _on_task_done pops the task
UnitDone(id) ==
    /\ pc[UnitOf(id)] = "unit_exit"
    /\ pc' = [pc EXCEPT ![UnitOf(id)] = "done"]
    /\ active_tasks' = on_task_done(active_tasks, id)
    /\ UNCHANGED <<wpc, pending_tasks, issued, error_msg, max_concurrent_tasks>>
    /\ UNCHANGED <<connections, conn_keys, ws_to_conversation, all_sockets, lock, sock,
                   arg_ws, arg_conv, todo, targets, sent, count, dead, bret, dret, nops, message>>
    /\ UNCHANGED <<qvars, ovars, hvars, cvars, svars, kvars, rvars>>

\* the steps of the processing unit of task id, its broadcasts included
UnitStep(id) ==
    \/ UnitSendProcessing(id)
    \/ \E e \in UnitErrors : UnitRun(id, e)
    \/ UnitMarkFailed(id)
    \/ UnitSendFailed(id)
    \/ UnitDone(id)
    \/ BcastSend(UnitOf(id))
    \/ BcastCleanup(UnitOf(id))
    \/ Disconnect(UnitOf(id))

\* the worker, the requests that create tasks, and the connections that
\* come and go at the connection manager
WkNext ==
    \/ Tick
    \/ \E id \in RequestIds : CreateTask(id)
    \/ GetPendingTasks
    \/ \E id \in RequestIds : ClaimTask(id)
    \/ Sleep
    \/ \E id \in RequestIds : UnitSendProcessing(id)
    \/ \E id \in RequestIds, e \in UnitErrors : UnitRun(id, e)
    \/ \E id \in RequestIds : UnitMarkFailed(id)
    \/ \E id \in RequestIds : UnitSendFailed(id)
    \/ \E id \in RequestIds : UnitDone(id)
    \/ \E p \in UnitProcs : BcastSend(p)
    \/ \E p \in UnitProcs : BcastCleanup(p)
    \/ \E s \in Socks : PeerClose(s)
    \/ \E s \in Socks : PeerBreak(s)
    \/ \E p \in WsProcs, s \in Socks, c \in Convs : CallConnect(p, s, c)
    \/ \E p \in WsProcs : Connect(p)
    \/ \E p \in WsProcs, s \in Socks : CallDisconnect(p, s)
    \/ \E p \in AllProcs : Disconnect(p)

\* the event loop runs every task that can run
WkFairness ==
    /\ \A id \in RequestIds : WF_vars(UnitStep(id))
    /\ WF_vars(GetPendingTasks \/ Sleep \/ \E id \in RequestIds : ClaimTask(id))
    /\ \A p \in WsProcs : WF_vars(Connect(p) \/ Disconnect(p))

\* -------------------------------------------------- connection handler
\* the task that runs websocket_chat for one connection, and its websocket
HandlerProc == 1
HandlerSock == 1

\* frames the observer sends: {"type": "cancel"}, a message with content, a
\* message without content or attachments, {"type": "ping"}, text that is
\* not JSON
Frames == {"cancel", "message", "empty_message", "ping", "not_json"}

\* the keys of custom_models as the handler builds it
custom_models_keys == {"primary", "secondary", "mago"}

HInit ==
    /\ hpc = "start"
    /\ inbox = <<>>
    /\ cancel_during = FALSE
    /\ conversation_messages = <<>>

\* the observer sends a frame; the handler reads it at its next receive_text
ObserverSends(f) ==
    /\ hpc \notin {"start", "ended"}
    /\ Len(inbox) < MaxFrames
    /\ inbox' = Append(inbox, f)
    /\ cancel_during' = (cancel_during \/ (f = "cancel" /\ hpc = "message"))
    /\ UNCHANGED <<hpc, conversation_messages>>
    /\ UNCHANGED <<qvars, wsvars, ovars, wvars, cvars, svars, kvars, rvars>>

\* websocket.accept() ... ws_manager.connect(websocket, conversation.id) is called
HandlerAccept ==
    /\ hpc = "start"
    /\ hpc' = "connecting"
    /\ pc' = [pc EXCEPT ![HandlerProc] = "connect"]
    /\ arg_ws' = [arg_ws EXCEPT ![HandlerProc] = HandlerSock]
    /\ arg_conv' = [arg_conv EXCEPT ![HandlerProc] = "A"]
    /\ UNCHANGED <<connections, conn_keys, ws_to_conversation, all_sockets, lock, sock,
                   todo, targets, sent, count, dead, bret, dret, nops, message>>
    /\ UNCHANGED <<inbox, cancel_during, conversation_messages>>
    /\ UNCHANGED <<qvars, ovars, wvars, cvars, svars, kvars, rvars>>

\* connect has returned: cancel_state = {"cancelled": False, ...}, the loop is entered
HandlerConnected ==
    /\ hpc = "connecting"
    /\ pc[HandlerProc] = "idle"
    /\ hpc' = "receive"
    /\ UNCHANGED <<inbox, cancel_during, conversation_messages>>
    /\ UNCHANGED <<qvars, wsvars, ovars, wvars, cvars, svars, kvars, rvars>>

\* receive_text gives a cancel frame: cancel_state["cancelled"] = True, then
\* the `cancelled` frame is being sent
ReceiveCancel ==
    /\ hpc = "receive"
    /\ inbox # <<>> /\ Head(inbox) = "cancel"
    /\ inbox' = Tail(inbox)
    /\ cancel_state' = TRUE
    /\ hpc' = "cancel"
    /\ UNCHANGED <<cancel_during, conversation_messages>>
    /\ UNCHANGED <<opc, iteration, websocket, tier, calls, n_tool_calls, tool_idx,
                   tool_name, tool_result, tool_messages, releases, returned,
                   require_completion_tool, step_types>>
    /\ UNCHANGED <<qvars, wsvars, wvars, cvars, svars, kvars, rvars>>

\* the `cancelled` frame is sent: cancel_state["cancelled"] = False, continue
CancelNotified ==
    /\ hpc = "cancel"
    /\ cancel_state' = FALSE
    /\ hpc' = "receive"
    /\ UNCHANGED <<inbox, cancel_during, conversation_messages>>
    /\ UNCHANGED <<opc, iteration, websocket, tier, calls, n_tool_calls, tool_idx,
                   tool_name, tool_result, tool_messages, releases, returned,
                   require_completion_tool, step_types>>
    /\ UNCHANGED <<qvars, wsvars, wvars, cvars, svars, kvars, rvars>>

\* receive_text gives a ping, text that is not JSON, or a message without
\* content and attachments: a pong or an error frame, or nothing; continue
ReceiveOther(f) ==
    /\ hpc = "receive"
    /\ inbox # <<>> /\ Head(inbox) = f
    /\ inbox' = Tail(inbox)
    /\ UNCHANGED <<hpc, cancel_during, conversation_messages>>
    /\ UNCHANGED <<qvars, wsvars, ovars, wvars, cvars, svars, kvars, rvars>>

\* receive_text gives a message with content: custom_models is built and the
\* attached files are loaded
ReceiveMessage ==
    /\ hpc = "receive"
    /\ inbox # <<>> /\ Head(inbox) = "message"
    /\ inbox' = Tail(inbox)
    /\ hpc' = "message"
    /\ UNCHANGED <<cancel_during, conversation_messages>>
    /\ UNCHANGED <<qvars, wsvars, ovars, wvars, cvars, svars, kvars, rvars>>

\* the handler goes on with the message: cancel_state["cancelled"] = False,
\* then logger.info(..., tertiary_model=custom_models["tertiary"]): without
\* that key a KeyError, which only the outer `except Exception` catches.
\* Past that line the rate limit is checked and the user message is appended
\* to conversation.messages; with "background" set in the frame the
\* conversation is then saved, the task created from the same user message
\* and the loop goes on, otherwise the synchronous run follows
HandleMessage(use_background) ==
    /\ hpc = "message"
    /\ cancel_state' = FALSE
    /\ IF "tertiary" \in custom_models_keys
       THEN /\ conversation_messages' = Append(conversation_messages, "user")
            /\ IF use_background
               THEN /\ \E id \in TaskIds :
                         /\ tasks[id].status = "absent"
                         /\ \A j \in TaskIds : j < id => tasks[j].status # "absent"
                         /\ saved_messages' =
                               [i \in DOMAIN conversation_messages' |->
                                  <<conversation_messages'[i],
                                    IF i = Len(conversation_messages') THEN id ELSE 0>>]
                         /\ tasks' = [tasks EXCEPT ![id] = NewTask(now)]
                    /\ hpc' = "receive"
               ELSE /\ hpc' = "run"
                    /\ UNCHANGED <<saved_messages, tasks>>
            /\ UNCHANGED <<pc, arg_ws, dret>>
       ELSE /\ hpc' = "disconnecting"
            /\ pc' = [pc EXCEPT ![HandlerProc] = "disconnect"]
            /\ arg_ws' = [arg_ws EXCEPT ![HandlerProc] = HandlerSock]
            /\ dret' = [dret EXCEPT ![HandlerProc] = "idle"]
            /\ UNCHANGED <<conversation_messages, saved_messages, tasks>>
    /\ UNCHANGED <<inbox, cancel_during>>
    /\ UNCHANGED <<opc, iteration, websocket, tier, calls, n_tool_calls, tool_idx,
                   tool_name, tool_result, tool_messages, releases, returned,
                   require_completion_tool, step_types>>
    /\ UNCHANGED <<connections, conn_keys, ws_to_conversation, all_sockets, lock, sock,
                   arg_conv, todo, targets, sent, count, dead, bret, nops, message>>
    /\ UNCHANGED <<now, cpc, carg, cres, ncalls, wins, toProcessing, lostPending, overl,
                   current_progress>>
    /\ UNCHANGED conversation
    /\ UNCHANGED <<wvars, cvars, svars, rvars>>

\* the observer goes away: receive_text raises WebSocketDisconnect, the
\* except clause calls ws_manager.disconnect(websocket)
ObserverLeaves ==
    /\ hpc = "receive"
    /\ inbox = <<>>
    /\ hpc' = "disconnecting"
    /\ pc' = [pc EXCEPT ![HandlerProc] = "disconnect"]
    /\ arg_ws' = [arg_ws EXCEPT ![HandlerProc] = HandlerSock]
    /\ dret' = [dret EXCEPT ![HandlerProc] = "idle"]
    /\ UNCHANGED <<connections, conn_keys, ws_to_conversation, all_sockets, lock, sock,
                   arg_conv, todo, targets, sent, count, dead, bret, nops, message>>
    /\ UNCHANGED <<inbox, cancel_during, conversation_messages>>
    /\ UNCHANGED <<qvars, ovars, wvars, cvars, svars, kvars, rvars>>

\* disconnect has returned; the handler ends
HandlerEnds ==
    /\ hpc = "disconnecting"
    /\ pc[HandlerProc] = "idle"
    /\ hpc' = "ended"
    /\ UNCHANGED <<inbox, cancel_during, conversation_messages>>
    /\ UNCHANGED <<qvars, wsvars, ovars, wvars, cvars, svars, kvars, rvars>>

HNext ==
    \/ \E f \in Frames : ObserverSends(f)
    \/ HandlerAccept
    \/ Connect(HandlerProc)
    \/ HandlerConnected
    \/ ReceiveCancel
    \/ CancelNotified
    \/ \E f \in {"ping", "not_json", "empty_message"} : ReceiveOther(f)
    \/ ReceiveMessage
    \/ \E use_background \in BOOLEAN : HandleMessage(use_background)
    \/ ObserverLeaves
    \/ Disconnect(HandlerProc)
    \/ HandlerEnds

\* -------------------------------------- background worker: the conversation
KInit ==
    /\ saved_messages = <<>>
    /\ conversation = [id \in TaskIds |-> <<>>]

\* _process_task: conversation = load_conversation(task.conversation_id), a
\* new object read from the file, and conversation.messages.append(user_message)
UnitLoad(id) ==
    /\ pc[UnitOf(id)] = "unit_run"
    /\ conversation' = [conversation EXCEPT ![id] = Append(saved_messages, <<"user", id>>)]
    /\ pc' = [pc EXCEPT ![UnitOf(id)] = "unit_call"]
    /\ UNCHANGED saved_messages
    /\ UNCHANGED <<connections, conn_keys, ws_to_conversation, all_sockets, lock, sock,
                   arg_ws, arg_conv, todo, targets, sent, count, dead, bret, dret, nops, message>>
    /\ UNCHANGED <<qvars, ovars, wvars, hvars, cvars, svars, rvars>>

\* _process_task: process_message(..., require_completion_tool=True); when
\* it returns, the reply is appended to the loaded conversation,
\* save_conversation writes the file and update_task_status(COMPLETED)
\* follows; when it raises, the except clause is entered
UnitCall(id) ==
    /\ pc[UnitOf(id)] = "unit_call"
    /\ IF ProcessMessageAccepts("True")
       THEN /\ conversation' = [conversation EXCEPT ![id] = Append(@, <<"assistant", id>>)]
            /\ saved_messages' = conversation'[id]
            /\ tasks' = update_task_status_sync(tasks, id, COMPLETED, "reply", "null", now)[1]
            /\ pc' = [pc EXCEPT ![UnitOf(id)] = "unit_completed"]
            /\ UNCHANGED error_msg
       ELSE /\ error_msg' = [error_msg EXCEPT ![id] = "TypeError"]
            /\ pc' = [pc EXCEPT ![UnitOf(id)] = "unit_except"]
            /\ UNCHANGED <<conversation, saved_messages, tasks>>
    /\ UNCHANGED <<wpc, pending_tasks, active_tasks, issued, max_concurrent_tasks>>
    /\ UNCHANGED <<now, cpc, carg, cres, ncalls, wins, toProcessing, lostPending, overl, current_progress>>
    /\ UNCHANGED <<connections, conn_keys, ws_to_conversation, all_sockets, lock, sock,
                   arg_ws, arg_conv, todo, targets, sent, count, dead, bret, dret, nops, message>>
    /\ UNCHANGED <<ovars, hvars, cvars, svars, rvars>>

\* _process_task: the send_task_status that ends it, COMPLETED after the
\* update to completed, FAILED in the except clause
UnitSendStatus(id) ==
    /\ pc[UnitOf(id)] \in {"unit_completed", "unit_failed"}
    /\ issued' = [issued EXCEPT ![id] = @ \cup {IF pc[UnitOf(id)] = "unit_completed"
                                                 THEN COMPLETED ELSE FAILED}]
    /\ UNCHANGED <<nops, wpc, pending_tasks, active_tasks, error_msg, max_concurrent_tasks>>
    /\ broadcast_globally(UnitOf(id), "unit_exit")
    /\ UNCHANGED <<qvars, ovars, hvars, cvars, svars, kvars, rvars>>

\* the worker and the units of tasks of one conversation; nobody is connected
ConvNext ==
    \/ \E id \in TaskIds : CreateTask(id)
    \/ GetPendingTasks
    \/ \E id \in TaskIds : ClaimTask(id)
    \/ Sleep
    \/ \E id \in TaskIds : UnitSendProcessing(id)
    \/ \E id \in TaskIds : UnitLoad(id)
    \/ \E id \in TaskIds : UnitCall(id)
    \/ \E id \in TaskIds : UnitMarkFailed(id)
    \/ \E id \in TaskIds : UnitSendStatus(id)
    \/ \E id \in TaskIds : UnitDone(id)

\* ------------------------------------------------- background worker: stop
SInit ==
    /\ running = TRUE
    /\ spc = "idle"
    /\ claim_arg = NULL
    /\ claim_ret = "none"

\* _main_loop: `await self._task_queue.claim_task(task.id)` is called and
\* _claim_task_sync handed to the thread pool; the main loop is suspended
MainLoopClaim(id) ==
    /\ wpc = "claiming"
    /\ pending_tasks # <<>> /\ id = Head(pending_tasks)
    /\ pending_tasks' = Tail(pending_tasks)
    /\ wpc' = "await_claim"
    /\ claim_arg' = id
    /\ claim_ret' = "none"
    /\ UNCHANGED <<active_tasks, issued, error_msg, max_concurrent_tasks, running, spc>>
    /\ UNCHANGED <<qvars, wsvars, ovars, hvars, cvars, kvars, rvars>>

\* the thread of the pool runs _claim_task_sync and commits, whether or not
\* the task that awaits its result has been cancelled meanwhile
ClaimThread ==
    /\ claim_arg # NULL
    /\ claim_ret = "none"
    /\ LET r == claim_task_sync(tasks, claim_arg, now)
       IN  /\ tasks' = r[1]
           /\ claim_ret' = IF r[2] THEN "true" ELSE "false"
           /\ wins' = [wins EXCEPT ![claim_arg] = IF r[2] THEN @ + 1 ELSE @]
           /\ toProcessing' = [toProcessing EXCEPT ![claim_arg] = IF r[2] THEN @ + 1 ELSE @]
    /\ UNCHANGED <<now, cpc, carg, cres, ncalls, lostPending, overl, current_progress>>
    /\ UNCHANGED <<running, spc, claim_arg>>
    /\ UNCHANGED <<wsvars, ovars, wvars, hvars, cvars, kvars, rvars>>

\* _main_loop: claim_task has returned; on True create_task(_process_task(task))
\* and self._active_tasks[task.id] = async_task
MainLoopSpawn ==
    /\ wpc = "await_claim"
    /\ claim_ret # "none"
    /\ IF claim_ret = "true"
       THEN /\ active_tasks' = active_tasks \cup {claim_arg}
            /\ pc' = [pc EXCEPT ![UnitOf(claim_arg)] = "unit_start"]
       ELSE UNCHANGED <<active_tasks, pc>>
    /\ wpc' = "claiming"
    /\ claim_arg' = NULL
    /\ claim_ret' = "none"
    /\ UNCHANGED <<pending_tasks, issued, error_msg, max_concurrent_tasks, running, spc>>
    /\ UNCHANGED <<connections, conn_keys, ws_to_conversation, all_sockets, lock, sock,
                   arg_ws, arg_conv, todo, targets, sent, count, dead, bret, dret, nops, message>>
    /\ UNCHANGED <<qvars, ovars, hvars, cvars, kvars, rvars>>

\* stop: self._main_task.cancel() and `await self._main_task`: CancelledError
\* is raised at the await the main loop is suspended at, and the loop breaks
MainTaskKeepsRunning(pos) == pos
MainTaskCancelled(pos) == "cancelled"

\* stop: self._running = False, the main loop and the cleanup loop are
\* cancelled and awaited
Stop ==
    /\ spc = "idle"
    /\ running
    /\ running' = FALSE
    /\ wpc' = MainTaskCancelled(wpc)
    /\ spc' = "cancelled_loops"
    /\ UNCHANGED <<pending_tasks, active_tasks, issued, error_msg, max_concurrent_tasks>>
    /\ UNCHANGED <<claim_arg, claim_ret>>
    /\ UNCHANGED <<qvars, wsvars, ovars, hvars, cvars, kvars, rvars>>

\* stop: `if self._active_tasks:` wait_for(gather(*self._active_tasks.values()), 30.0)
StopWaits ==
    /\ spc = "cancelled_loops"
    /\ spc' = IF active_tasks = {} THEN "stopped" ELSE "waiting"
    /\ UNCHANGED <<running, claim_arg, claim_ret>>
    /\ UNCHANGED <<qvars, wsvars, ovars, wvars, hvars, cvars, kvars, rvars>>

\* stop: every awaited unit has ended within the 30 s
StopGathered ==
    /\ spc = "waiting"
    /\ active_tasks = {}
    /\ spc' = "stopped"
    /\ UNCHANGED <<running, claim_arg, claim_ret>>
    /\ UNCHANGED <<qvars, wsvars, ovars, wvars, hvars, cvars, kvars, rvars>>

\* stop: asyncio.TimeoutError after the 30 s, `for task in
\* self._active_tasks.values(): task.cancel()`: CancelledError, which the
\* `except Exception` of _process_task does not catch, ends each unit where
\* it is, and the done callback pops it
StopTimeout ==
    /\ spc = "waiting"
    /\ active_tasks # {}
    /\ pc' = [p \in AllProcs |->
                 IF \E id \in active_tasks : p = UnitOf(id) THEN "cancelled" ELSE pc[p]]
    /\ active_tasks' = {}
    /\ spc' = "stopped"
    /\ UNCHANGED <<wpc, pending_tasks, issued, error_msg, max_concurrent_tasks>>
    /\ UNCHANGED <<running, claim_arg, claim_ret>>
    /\ UNCHANGED <<connections, conn_keys, ws_to_conversation, all_sockets, lock, sock,
                   arg_ws, arg_conv, todo, targets, sent, count, dead, bret, dret, nops, message>>
    /\ UNCHANGED <<qvars, ovars, hvars, cvars, kvars, rvars>>

\* the worker with its claims awaited, its units, the requests that create
\* tasks, and stop(); nobody is connected
StopNext ==
    \/ \E id \in TaskIds : CreateTask(id)
    \/ GetPendingTasks
    \/ \E id \in TaskIds : MainLoopClaim(id)
    \/ ClaimThread
    \/ MainLoopSpawn
    \/ Sleep
    \/ \E id \in TaskIds : UnitSendProcessing(id)
    \/ \E id \in TaskIds : UnitRun(id, "TypeError")
    \/ \E id \in TaskIds : UnitMarkFailed(id)
    \/ \E id \in TaskIds : UnitSendFailed(id)
    \/ \E id \in TaskIds : UnitDone(id)
    \/ Stop
    \/ StopWaits
    \/ StopGathered
    \/ StopTimeout

\* ------------------------------------------------ container session manager
Sessions == 1..NumSessions
Days == 0..MaxDay

\* get_container_name: f"{date_str}-{session_id}", date_str from datetime.now()
get_container_name(session_id, day) == <<day, session_id>>

ContainerNames == {get_container_name(s, d) : s \in Sessions, d \in Days}

CInit ==
    /\ containers = [n \in ContainerNames |-> "absent"]
    /\ date = 0
    /\ container = [s \in Sessions |-> NULL]

\* get_or_create_container, a classmethod without an await that the tools
\* call on the event loop, so two calls never overlap: without a client
\* it returns None; a container found under today's name is started if it
\* is not running and returned; if none is found one is run under that name
GetOrCreateContainer(session_id, client) ==
    LET container_name == get_container_name(session_id, date) IN
    /\ IF ~ client
       THEN /\ container' = [container EXCEPT ![session_id] = NULL]
            /\ UNCHANGED containers
       ELSE /\ containers' = [containers EXCEPT ![container_name] = "running"]
            /\ container' = [container EXCEPT ![session_id] = container_name]
    /\ UNCHANGED date
    /\ UNCHANGED <<qvars, wsvars, ovars, wvars, hvars, svars, kvars, rvars>>

\* cleanup_container: removes the container found under today's name
CleanupContainer(session_id, client) ==
    LET container_name == get_container_name(session_id, date) IN
    /\ containers' = IF client
                     THEN [containers EXCEPT ![container_name] = "absent"]
                     ELSE containers
    /\ UNCHANGED <<date, container>>
    /\ UNCHANGED <<qvars, wsvars, ovars, wvars, hvars, svars, kvars, rvars>>

\* a running container stops (restart_policy "no"); the `status != 'running'`
\* branch of get_or_create_container is for this
ContainerExits(name) ==
    /\ containers[name] = "running"
    /\ containers' = [containers EXCEPT ![name] = "exited"]
    /\ UNCHANGED <<date, container>>
    /\ UNCHANGED <<qvars, wsvars, ovars, wvars, hvars, svars, kvars, rvars>>

\* midnight passes: datetime.now() falls on the next day
NextDay ==
    /\ date < MaxDay
    /\ date' = date + 1
    /\ UNCHANGED <<containers, container>>
    /\ UNCHANGED <<qvars, wsvars, ovars, wvars, hvars, svars, kvars, rvars>>

CNext ==
    \/ \E s \in Sessions, client \in BOOLEAN : GetOrCreateContainer(s, client)
    \/ \E s \in Sessions, client \in BOOLEAN : CleanupContainer(s, client)
    \/ \E n \in ContainerNames : ContainerExits(n)
    \/ NextDay

\* ------------------------------------- orchestrator invocations and the sandbox
Runs == 1..NumRuns

RInit ==
    /\ rpc = [r \in Runs |-> "idle"]
    /\ rsession = [r \in Runs |-> 1]

\* process_message is called for a conversation (by a processing unit of the
\* worker or by a connection handler)
RunStarts(r, session_id) ==
    /\ rpc[r] = "idle"
    /\ rpc' = [rpc EXCEPT ![r] = "started"]
    /\ rsession' = [rsession EXCEPT ![r] = session_id]
    /\ UNCHANGED <<qvars, wsvars, ovars, wvars, hvars, cvars, svars, kvars>>

\* a tool call is dispatched with tool_args["session_id"] = conversation.id
\* and the tool gets the session's container: get_or_create_container
RunDispatchesTool(r) ==
    LET container_name == get_container_name(rsession[r], date) IN
    /\ rpc[r] \in {"started", "tools"}
    /\ rpc' = [rpc EXCEPT ![r] = "tools"]
    /\ containers' = [containers EXCEPT ![container_name] = "running"]
    /\ container' = [container EXCEPT ![rsession[r]] = container_name]
    /\ UNCHANGED <<date, rsession>>
    /\ UNCHANGED <<qvars, wsvars, ovars, wvars, hvars, svars, kvars>>

\* cleanup_resources(session_id): cleanup_container(session_id), whoever
\* else uses the container
Released(conts, r) ==
    [conts EXCEPT ![get_container_name(rsession[r], date)] = "absent"]

\* the invocation reaches a terminal (final response, cancellation, all
\* models failed, iteration limit): cleanup_resources(conversation.id), return
RunReturns(r) ==
    /\ rpc[r] \in {"started", "tools"}
    /\ rpc' = [rpc EXCEPT ![r] = "returned"]
    /\ containers' = Released(containers, r)
    /\ UNCHANGED <<date, container, rsession>>
    /\ UNCHANGED <<qvars, wsvars, ovars, wvars, hvars, svars, kvars>>

\* invocations that overlap, on the same or on different conversations
RNext ==
    \/ \E r \in Runs, s \in Sessions : RunStarts(r, s)
    \/ \E r \in Runs : RunDispatchesTool(r)
    \/ \E r \in Runs : RunReturns(r)
    \/ \E n \in ContainerNames : ContainerExits(n)
    \/ NextDay

Init == QInit /\ WsInit /\ OInit /\ WkInit /\ HInit /\ CInit /\ SInit /\ KInit /\ RInit

\* ------------------------------------------------------------ specifications
SpecQueue == Init /\ [][QNext]_vars
SpecWs == Init /\ [][WsNext]_vars
SpecOrch == Init /\ [][ONext]_vars
SpecWorker == Init /\ [][WkNext]_vars /\ WkFairness
SpecHandler == Init /\ [][HNext]_vars
SpecSandbox == Init /\ [][CNext]_vars
SpecStop == Init /\ [][StopNext]_vars
SpecConv == Init /\ [][ConvNext]_vars
SpecRelease == Init /\ [][RNext]_vars

\* the worker built with max_concurrent_tasks from 1..MaxSlots, serving more
\* tasks than it has slots; nobody is connected, so each send_task_status
\* returns at once, and every unit ends in the TypeError of its call of
\* process_message
SlotsInit ==
    /\ QInit /\ WsInit /\ OInit /\ HInit /\ CInit /\ SInit /\ KInit /\ RInit
    /\ \E max \in 1..MaxSlots : WkInitWith(max)

SlotsNext ==
    \/ \E id \in TaskIds : CreateTask(id)
    \/ \E c \in Callers, id \in TaskIds : CancelRead(c, id)
    \/ \E c \in Callers : CancelWrite(c)
    \/ GetPendingTasks
    \/ \E id \in TaskIds : ClaimTask(id)
    \/ Sleep
    \/ \E id \in TaskIds : UnitSendProcessing(id)
    \/ \E id \in TaskIds : UnitRun(id, "TypeError")
    \/ \E id \in TaskIds : UnitMarkFailed(id)
    \/ \E id \in TaskIds : UnitSendFailed(id)
    \/ \E id \in TaskIds : UnitDone(id)

SpecSlots == SlotsInit /\ [][SlotsNext]_vars

\* the event loop runs the main loop and every processing unit that can run
SlotsFairness ==
    /\ WF_vars(GetPendingTasks \/ Sleep \/ \E id \in TaskIds : ClaimTask(id))
    /\ \A id \in TaskIds :
          WF_vars(UnitSendProcessing(id) \/ UnitRun(id, "TypeError") \/ UnitMarkFailed(id)
                    \/ UnitSendFailed(id) \/ UnitDone(id))

\* the one request that calls cancel_task
Canceller == 1

\* the worker and its units as in SlotsNext, with one caller of cancel_task
LiveNext ==
    \/ \E id \in TaskIds : CreateTask(id)
    \/ \E id \in TaskIds : CancelRead(Canceller, id)
    \/ CancelWrite(Canceller)
    \/ GetPendingTasks
    \/ \E id \in TaskIds : ClaimTask(id)
    \/ Sleep
    \/ \E id \in TaskIds : UnitSendProcessing(id)
    \/ \E id \in TaskIds : UnitRun(id, "TypeError")
    \/ \E id \in TaskIds : UnitMarkFailed(id)
    \/ \E id \in TaskIds : UnitSendFailed(id)
    \/ \E id \in TaskIds : UnitDone(id)

SpecSlotsLive == SlotsInit /\ [][LiveNext]_vars /\ SlotsFairness

\* the worker's polling and a second claimer on the same table, while tasks
\* are created at different times
OtherWorker == 1

PendingNext ==
    \/ Tick
    \/ \E id \in TaskIds : CreateTask(id)
    \/ \E id \in TaskIds : ClaimCall(OtherWorker, id)
    \/ ClaimExec(OtherWorker)
    \/ ClaimLost(OtherWorker)
    \/ \E st \in {COMPLETED, FAILED} : UpdateStatus(OtherWorker, st)
    \/ GetPendingTasks
    \/ \E id \in TaskIds : ClaimTask(id)
    \/ Sleep

SpecPending == SlotsInit /\ [][PendingNext]_vars

\* callers that add progress entries to tasks, and the cancel endpoint's
\* update_task_status on the same rows
ProgressNext ==
    \/ \E id \in TaskIds : CreateTask(id)
    \/ \E c \in Callers, id \in TaskIds : AddProgressSelect(c, id)
    \/ \E c \in Callers : AddProgressUpdate(c)
    \/ \E c \in Callers, id \in TaskIds : CancelRead(c, id)
    \/ \E c \in Callers : CancelWrite(c)

SpecProgress == Init /\ [][ProgressNext]_vars

\* ------------------------------------------------------------------ C1
\* C1: among the claim_task calls made on a task, at most one returns True,
\* a call that finds the row pending is the one that returns True, and the
\* row goes pending -> processing once, however the calls interleave.
C1_ClaimExactlyOnce ==
    \A id \in TaskIds :
        /\ wins[id] <= 1
        /\ toProcessing[id] = wins[id]
        /\ ~lostPending[id]

\* two overlapping claim_task calls on the same task have both returned,
\* one with True and one with False
C1_Witness ==
    \E c, d \in Callers :
        /\ c # d
        /\ cpc[c] = "claimed" /\ cpc[d] = "claimed"
        /\ carg[c] = carg[d]
        /\ cres[c] /\ ~cres[d]
        /\ overl[c] /\ overl[d]

\* ------------------------------------------------------------------ C2
\* C2: whichever way an invocation of process_message has ended (a returned
\* value or an exception), it has called cleanup_resources exactly once.
C2_ReleaseOnceOnEveryTerminal ==
    opc \in {"returned", "raised"} => releases = 1

\* ------------------------------------------------------------------ C3
\* C3: every task the worker has claimed eventually has status completed or
\* failed in the queue, with a task_status broadcast of that status issued and
\* its processing unit ended, whatever the conversation store, the
\* orchestrator call or the peers do.
C3_ClaimedTaskEnds ==
    \A id \in TaskIds :
        (pc[UnitOf(id)] = "unit_start") ~>
            (/\ pc[UnitOf(id)] = "done"
             /\ tasks[id].status \in {COMPLETED, FAILED}
             /\ tasks[id].status \in issued[id])

\* ------------------------------------------------------------------ C4
\* the counts of the cascade in progress: no tier is called more than twice,
\* a tier is called only when the tiers before it have been called twice, and
\* the tier called next is the first one that has not failed twice
CascadeInOrder ==
    /\ \A k \in 1..3 : calls[k] <= 2
    /\ \A k \in 1..2 : calls[k + 1] > 0 => calls[k] = 2
    /\ opc \in {"call_model", "response"} =>
          /\ tier \in 1..3
          /\ \A k \in 1..3 : k < tier => calls[k] = 2
          /\ \A k \in 1..3 : k > tier => calls[k] = 0
    /\ opc = "call_model" => calls[tier] < 2
    /\ opc = "response" => calls[tier] \in 1..2

\* C4: within one iteration the tiers are contacted in the order primary,
\* secondary, tertiary, each at most twice, tier k+1 only after tier k failed
\* twice; the first accepted response ends the cascade; a first tier that
\* fails twice and a second tier that answers at once give 2, 1 and 0 calls.
C4_TierCascade ==
    /\ [](CascadeInOrder)
    /\ []((opc = "response" /\ tier = 2 /\ calls[2] = 1) => calls = <<2, 1, 0>>)
    /\ [][opc = "response" => opc' # "call_model"]_vars

\* the first tier failed twice and the second tier's first response is accepted
C4_Witness ==
    opc = "response" /\ tier = 2 /\ calls = <<2, 1, 0>>


\* ------------------------------------------------------------------ C5
\* C5: a cancel frame sent while the handler is handling a message, which is
\* when the synchronous run of that message is in progress, finds a run
\* executing, and once that message has been handled the run has returned
\* the cancelled terminal.
C5_CancelDuringRunHonoured ==
    cancel_during =>
        /\ opc # "idle"
        /\ hpc \notin {"message", "run"} => returned = CANCELLED_MSG

\* ------------------------------------------------------------------ C6
\* a task is inside _broadcast_to_sockets, past the send loop
InCleanup(p) ==
    \/ pc[p] = "bcast_cleanup"
    \/ pc[p] = "disconnect" /\ dret[p] = "bcast_cleanup"

\* C6: a broadcast that met a dead peer still returns: past its send loop the
\* task can always take its next step (remove a dead peer, or return) once the
\* mutex is not held by a task that is itself able to go on.
C6_DeadPeerBroadcastReturns ==
    \A p \in AllProcs :
        InCleanup(p) /\ lock \in {FREE, p} =>
            ENABLED (BcastCleanup(p) \/ Disconnect(p))

\* ------------------------------------------------------------------ C7
\* C7: when the send loop of a broadcast has ended, every peer of the copied
\* list that is connected has been sent the message, whatever happened to the
\* other peers, `count` is the number of peers sent to, and with no dead peer
\* the value returned is the size of the list.
C7_BroadcastDelivers ==
    \A p \in AllProcs :
        pc[p] = "bcast_cleanup" =>
            /\ \A s \in targets[p] : sock[s] = "CONNECTED" => s \in sent[p]
            /\ count[p] = Cardinality(sent[p])
            /\ sent[p] \cap dead[p] = {}
            /\ dead[p] = {} => count[p] = Cardinality(targets[p])

\* the send loop of a broadcast has ended with a peer that failed and a peer
\* that was sent the message
C7_Witness ==
    \E p \in AllProcs :
        /\ pc[p] = "bcast_cleanup"
        /\ dead[p] # {}
        /\ sent[p] # {}

\* ------------------------------------------------------------------ C8
\* every tool call of the latest accepted response has its tool message, in
\* the order of the calls
AllToolCallsAnswered ==
    /\ Len(tool_messages) = n_tool_calls
    /\ \A k \in DOMAIN tool_messages :
          tool_messages[k].role = "tool" /\ tool_messages[k].tool_call_id = k

\* C8: the model is called again only after the for loop over the tool calls
\* has ended, and then every tool call of the accepted response has a tool
\* message with its id, also for an unknown tool,
\* undecodable arguments, a tool that raises or returns success=false; the
\* step that executes a tool, whatever the tool does, does not end the run.
C8_EveryToolCallAnswered ==
    /\ [](opc = "while" => AllToolCallsAnswered)
    /\ [][opc' = "call_model" => opc \in {"while", "call_model"}]_vars
    /\ [][opc = "execute_tool" =>
            /\ opc' \in {"execute_tool", "tool_result"}
            /\ returned' = "" /\ releases' = 0]_vars
    /\ [][(opc = "tool_result" /\ opc' \notin {"tool_result", "raised"}) =>
            /\ Len(tool_messages') = Len(tool_messages) + 1
            /\ tool_messages'[Len(tool_messages')].tool_call_id = tool_idx
            /\ returned' = ""]_vars

\* the for loop has ended, and the model is about to be called again, after
\* a response with a tool call of undecodable arguments and a tool call that
\* failed (unknown name, or the tool raised or returned success=false)
C8_Witness ==
    /\ opc = "while" /\ iteration < max_iterations /\ ~cancel_state
    /\ \E k \in DOMAIN tool_messages : tool_messages[k].content = "Erro ao parsear argumentos"
    /\ \E k \in DOMAIN tool_messages :
          tool_messages[k].content \in {"Erro: Tool nao encontrada", "Erro: error"}

\* ------------------------------------------------------------------ C9
\* C9: a run that ends with the iteration-limit message has made exactly 200
\* iterations, each of which accepted a response with tool calls, and has
\* called cleanup_resources exactly once.
C9_IterationCap ==
    returned = ITERATION_LIMIT =>
        /\ iteration = 200
        /\ releases = 1
        /\ opc = "returned"
        /\ n_tool_calls > 0

\* a run in which every iteration accepted a response with tool calls has ended
C9_Witness ==
    returned = ITERATION_LIMIT /\ opc = "returned"

\* ------------------------------------------------------------------ C10
\* finish_task has been executed in this iteration: its result is among the
\* tool messages
FinishTaskCalled ==
    \E k \in DOMAIN tool_messages : tool_messages[k].content = "Tarefa finalizada"

\* C10: once finish_task has been executed, no step of the run goes to a
\* model call.
C10_FinishTaskEndsRun ==
    [][FinishTaskCalled => opc' # "call_model"]_vars

\* ------------------------------------------------------------------ C11
\* C11: a run called with require_completion_tool = true ends only by
\* finish_task, tier exhaustion, cancellation or the iteration cap (a response
\* without tool calls does not end it); a run called with
\* require_completion_tool = false runs its loop, where a response without
\* tool calls ends it with that response returned.
C11_CompletionToolRequired ==
    /\ (require_completion_tool = "True" /\ opc \in {"returned", "raised"}) =>
           returned \in {"Tarefa finalizada", ALL_FAILED, CANCELLED_MSG, ITERATION_LIMIT}
    /\ (require_completion_tool = "False" /\ opc \in {"returned", "raised"}) =>
           iteration > 0

\* ------------------------------------------------------------------ C12
\* position of a status in the order pending, processing, completed, failed,
\* cancelled
Rank(status) ==
    CASE status = PENDING -> 1
      [] status = PROCESSING -> 2
      [] status = COMPLETED -> 3
      [] status = FAILED -> 4
      [] status = CANCELLED -> 5

\* C12: no step of claim, update_status, the cancel endpoint, reset_stuck or
\* cleanup_old moves the status of a task to an earlier element of the order
\* pending, processing, completed, failed, cancelled.
C12_StatusMonotonic ==
    [][\A id \in TaskIds :
          (InTable(tasks, id) /\ InTable(tasks', id)) =>
              Rank(tasks'[id].status) >= Rank(tasks[id].status)]_vars

\* ------------------------------------------------------------------ C13
\* C13: a step that writes cancelled finds the task pending, so a claimed
\* task is never rewritten to cancelled; and no claim moves a cancelled task
\* to processing.
C13_CancelOnlyPending ==
    [][\A id \in TaskIds :
          /\ (tasks'[id].status = CANCELLED /\ tasks[id].status # CANCELLED) =>
                 tasks[id].status = PENDING
          /\ tasks[id].status = CANCELLED => tasks'[id].status # PROCESSING]_vars

\* ------------------------------------------------------------------ C14
\* C14: the step in which reset_stuck_tasks runs and returns leaves no task
\* processing; every task that was processing is failed, with an error text
\* and completed_at set and nothing else changed; the count returned is the
\* number of these tasks; every other row is as it was.
C14_ResetStuck ==
    [][\A c \in Callers :
          (cpc[c] = "idle" /\ cpc'[c] = "reset_done") =>
              /\ \A id \in TaskIds : tasks'[id].status # PROCESSING
              /\ \A id \in TaskIds :
                    IF tasks[id].status = PROCESSING
                    THEN /\ tasks'[id].status = FAILED
                         /\ tasks'[id].error # "null"
                         /\ tasks'[id].completed_at # NULL
                         /\ tasks'[id].created_at = tasks[id].created_at
                         /\ tasks'[id].started_at = tasks[id].started_at
                         /\ tasks'[id].result = tasks[id].result
                    ELSE tasks'[id] = tasks[id]
              /\ cres'[c] = Cardinality({id \in TaskIds : tasks[id].status = PROCESSING})]_vars

\* reset_stuck_tasks has just returned a count of at least one, and a task it
\* reset is failed with its error text
C14_Witness ==
    \E c \in Callers :
        /\ cpc[c] = "reset_done"
        /\ cres[c] >= 1
        /\ \E id \in TaskIds :
              tasks[id].status = FAILED /\ tasks[id].error = "Processamento interrompido"

\* ------------------------------------------------------------------ C15
\* C15: in every reachable state of the table, a processing task has
\* started_at set and a completed, failed or cancelled task has completed_at
\* set.
C15_TimestampsSet ==
    \A id \in TaskIds :
        /\ tasks[id].status = PROCESSING => tasks[id].started_at # NULL
        /\ tasks[id].status \in {COMPLETED, FAILED, CANCELLED} =>
               tasks[id].completed_at # NULL

\* a task was cancelled by the endpoint: completed_at is what the cancel set
C15_Witness ==
    \E id \in TaskIds :
        tasks[id].status = CANCELLED /\ tasks[id].completed_at # NULL

C17_SlotsRespected ==
    /\ [](Cardinality(active_tasks) <= max_concurrent_tasks)
    /\ [][\A id \in TaskIds :
             (tasks[id].status # PROCESSING /\ tasks'[id].status = PROCESSING) =>
                 Cardinality(active_tasks) < max_concurrent_tasks]_vars

\* every slot is taken while a task waits in the table as pending
C17_Witness ==
    /\ Cardinality(active_tasks) = max_concurrent_tasks
    /\ \E id \in TaskIds : tasks[id].status = PENDING

\* ------------------------------------------------------------------ C18
\* C18: when the cancellation flag is set while a later tool call of the
\* iteration (the second or one after it) is about to start, that tool is not
\* dispatched and no tool message is appended for it: the run returns the
\* cancelled terminal from there.
C18_CancelBetweenToolCalls ==
    [][(opc = "tool_start" /\ tool_idx >= 2 /\ cancel_state) =>
           /\ opc' # "execute_tool"
           /\ tool_messages' = tool_messages
           /\ opc' = "returned" => returned' = CANCELLED_MSG]_vars

\* ------------------------------------------------------------------ C19
\* C19: once the handler is done with a message whose synchronous run was
\* cancelled (a cancel frame arrived while the message was being handled),
\* the conversation ends with the user message: no assistant message has been
\* appended after it.
C19_CancelledRunAppendsNothing ==
    (cancel_during /\ hpc \notin {"message", "run"}) =>
        /\ conversation_messages # <<>>
        /\ conversation_messages[Len(conversation_messages)] = "user"

\* ------------------------------------------------------------------ C20
\* C20: a run whose cascade is exhausted (the second call of the third tier
\* has failed) has ended with the message that all models failed, and a run
\* that returned that message made exactly two calls to each of the three
\* tiers, dispatched no tool in that iteration and released its resources once.
C20_AllTiersFailed ==
    /\ (opc \notin {"idle", "response"} /\ calls = <<2, 2, 2>>) =>
           (opc = "returned" /\ returned = ALL_FAILED)
    /\ returned = ALL_FAILED =>
           /\ opc = "returned"
           /\ calls = <<2, 2, 2>>
           /\ n_tool_calls = 0
           /\ tool_messages = <<>>
           /\ tool_name = ""
           /\ releases = 1

\* all tiers failed in an iteration that followed one with tool calls
C20_Witness ==
    returned = ALL_FAILED /\ iteration >= 2

\* ------------------------------------------------------------------ C21
\* what the callers of process_message do with the way it ended.
\* _process_task: a returned reply is saved and the task is marked completed;
\* the except clause marks it failed
TaskStatusAfterRun(ended) == IF ended = "raised" THEN FAILED ELSE COMPLETED
\* websocket_chat, synchronous mode: a returned reply is sent as the assistant
\* `message` frame; the except clause sends an `error` frame
FrameAfterRun(ended) == IF ended = "raised" THEN "error" ELSE "message"

\* C21: a run in which all three tiers were exhausted ends in a way that its
\* callers treat as fatal: the background task is marked failed, not
\* completed, and the synchronous handler sends an `error` frame, not an
\* assistant `message` frame.
C21_ExhaustedTiersAreFatal ==
    (opc \in {"returned", "raised"} /\ calls = <<2, 2, 2>>) =>
        /\ TaskStatusAfterRun(opc) = FAILED
        /\ FrameAfterRun(opc) = "error"

\* ------------------------------------------------------------------ C22
\* C22: a processing unit whose conversation was loaded (it got as far as the
\* call of process_message with require_completion_tool=True) and that has
\* ended has marked its task completed and has sent the completed status.
C22_WorkerCompletesTask ==
    \A id \in TaskIds :
        (pc[UnitOf(id)] = "done" /\ error_msg[id] = "TypeError") =>
            /\ tasks[id].status = COMPLETED
            /\ COMPLETED \in issued[id]

\* ------------------------------------------------------------------ C23
\* the table after update_task_status(id, status, result, error) at time t
UpdatedAt(tbl, id, status, result, error, t) ==
    update_task_status_sync(tbl, id, status, result, error, t)[1]

\* C23: on every reachable table, update_status applied now and applied once
\* more with the same arguments, at the same or a later time, leaves every
\* row equal in every column to what the first application left.
C23_UpdateStatusIdempotent ==
    \A id \in TaskIds, status \in {COMPLETED, FAILED, CANCELLED},
       result \in {"null", "reply"}, error \in {"null", "error"},
       later \in now..MaxClock :
        LET once == UpdatedAt(tasks, id, status, result, error, now)
        IN  UpdatedAt(once, id, status, result, error, later) = once

IsPrefix(seq, longer) ==
    /\ Len(seq) <= Len(longer)
    /\ \A i \in 1..Len(seq) : seq[i] = longer[i]

\* C25: in every step the progress list of each task is kept or extended at
\* its end: no entry is changed, removed or moved, and every add_progress
\* call that updates the row leaves exactly one entry more than there was.
C25_ProgressOnlyGrows ==
    [][\A id \in TaskIds :
          /\ IsPrefix(tasks[id].progress, tasks'[id].progress)
          /\ (\E c \in Callers : cpc[c] = "add_progress" /\ cpc'[c] = "idle"
                                  /\ carg[c] = id /\ InTable(tasks, id)) =>
                 Len(tasks'[id].progress) = Len(tasks[id].progress) + 1]_vars

\* ------------------------------------------------------------------ C27
\* C27: no peer is sent the message of a broadcast after it has been sent the
\* message of a broadcast that was dispatched later (and is still being
\* sent): the messages one peer gets come in the order in which their
\* broadcast calls were dispatched.
C27_DispatchOrderPerPeer ==
    [][\A p \in WsProcs, s \in Socks :
          (s \in sent'[p] /\ s \notin sent[p]) =>
              ~ \E q \in WsProcs \ {p} :
                    message[q] > message[p] /\ s \in sent[q]]_vars

\* ------------------------------------------------------------------ C26
\* C26: in every reachable state of the connection manager a connection is in
\* the set of conversation c exactly when the connection-to-conversation map
\* sends it to c (so it is in at most one set), and every connection that is
\* attached to a conversation is in the global set.
C26_IndicesAgree ==
    \A s \in Socks :
        /\ \A c \in Convs : s \in connections[c] <=> ws_to_conversation[s] = c
        /\ Cardinality({c \in Convs : s \in connections[c]}) <= 1
        /\ ws_to_conversation[s] # "none" => s \in all_sockets

\* a connection was moved from conversation A, whose set is left empty under
\* its key, to conversation B
C26_Witness ==
    /\ conn_keys = {"A", "B"}
    /\ connections["A"] = {}
    /\ \E s \in Socks : ws_to_conversation[s] = "B" /\ s \in connections["B"]

\* ------------------------------------------------------------------ C30
\* the indices of the connection manager
Indices == <<connections, conn_keys, ws_to_conversation, all_sockets>>

\* C30: when disconnect(conn) has run, conn is in no conversation's set, not
\* in the map and not in the global set, whatever it was attached to before;
\* disconnect of a connection that is not registered and connect of a
\* connection to the conversation it is attached to leave the indices as
\* they are.
C30_AttachDetach ==
    [][\A p \in WsProcs :
          /\ (pc[p] = "disconnect" /\ pc'[p] # "disconnect") =>
                 /\ \A c \in Convs : arg_ws[p] \notin connections'[c]
                 /\ ws_to_conversation'[arg_ws[p]] = "none"
                 /\ arg_ws[p] \notin all_sockets'
                 /\ (ws_to_conversation[arg_ws[p]] = "none" /\ arg_ws[p] \notin all_sockets)
                        => Indices' = Indices
          /\ (pc[p] = "connect" /\ pc'[p] # "connect"
                /\ ws_to_conversation[arg_ws[p]] = arg_conv[p]) =>
                 Indices' = Indices]_vars

\* connect(conn, A), connect(conn, B) and disconnect(conn) have run: nothing
\* is registered and only the key of A, which conn left by moving, remains
C30_Witness ==
    /\ nops = 3
    /\ \A p \in WsProcs : pc[p] = "idle"
    /\ all_sockets = {}
    /\ conn_keys = {"A"}
    /\ \A c \in Convs : connections[c] = {}

\* ------------------------------------------------------------------ C29
\* C29: at any time at most one container exists for a session
\* (conversation), and a get_or_create_container that has a client returns
\* the container that exists for the session.
C29_OneSessionPerConversation ==
    \A s \in Sessions :
        Cardinality({d \in Days : containers[get_container_name(s, d)] # "absent"}) <= 1

\* ------------------------------------------------------------------ C28
\* C28: the handling of a message frame goes on into the synchronous run
\* (`status: processing`, the reply, `status: idle`) with the user message
\* appended to the conversation, and the handler keeps serving: it never
\* leaves the handling of a message for the disconnect that ends it; and
\* once a message has been taken from an empty conversation and handled,
\* the conversation holds the user message and the assistant message.
C28_MessageServedInOrder ==
    [][/\ (hpc = "message" /\ hpc' # "message") =>
             /\ hpc' = "run"
             /\ conversation_messages' = Append(conversation_messages, "user")
       /\ (hpc \in {"message", "run"} /\ hpc' \notin {"message", "run"}) =>
             /\ hpc' = "receive"
             /\ conversation_messages' = <<"user", "assistant">>]_vars

\* ------------------------------------------------------------------ C39
\* get_active_conversations: set(self._connections.keys())
get_active_conversations == conn_keys

\* get_connection_count: len(self._connections.get(conversation_id, set()))
get_connection_count(conversation_id) ==
    IF conversation_id \in conn_keys THEN Cardinality(connections[conversation_id]) ELSE 0

\* C39: every conversation that get_active_conversations returns has at
\* least one attached connection, and a conversation without attached
\* connections is not returned and has the connection count 0.
C39_ActiveConversationsAttached ==
    \A c \in Convs :
        /\ c \in get_active_conversations => \E s \in Socks : ws_to_conversation[s] = c
        /\ (\A s \in Socks : ws_to_conversation[s] # c) =>
               c \notin get_active_conversations /\ get_connection_count(c) = 0

\* ------------------------------------------------------------------ C31
\* the connections attached to some conversation
Attached == {s \in Socks : ws_to_conversation[s] # "none"}

\* C31: a global broadcast (send_task_progress, send_task_status) takes as
\* its peers every registered connection, whatever conversation it is
\* attached to, and returns 0 at once when there is none; when its send loop
\* has ended without a dead peer, every one of them has been sent the frame
\* and the value returned, count, is their number.
C31_GlobalBroadcastReachesAll ==
    /\ [][\A p \in WsProcs :
            CallBroadcastGlobal(p) =>
                /\ targets'[p] = Attached
                /\ Attached = {} => pc'[p] = "idle"]_vars
    /\ [](\A p \in WsProcs :
            (pc[p] = "bcast_cleanup" /\ dead[p] = {}) =>
                /\ sent[p] = targets[p]
                /\ count[p] = Cardinality(targets[p]))

\* the send loop of a broadcast has ended and has sent the frame to a
\* connection attached to conversation A and to one attached to B
C31_Witness ==
    \E p \in WsProcs :
        /\ pc[p] = "bcast_cleanup"
        /\ count[p] = 2
        /\ \E s1, s2 \in sent[p] :
              ws_to_conversation[s1] = "A" /\ ws_to_conversation[s2] = "B"

\* ------------------------------------------------------------------ C32
\* positions of a processing unit that has not ended
UnitRunning == {"unit_start", "unit_run", "unit_except", "unit_failed", "unit_exit",
                "bcast_loop", "bcast_cleanup", "disconnect"}

\* C32: once stop() has begun the main loop begins no claim, fetches no
\* list and spawns no unit (the only task that can still turn processing is
\* the one whose claim was already in its thread); stop() is over only when
\* no unit is tracked and none is running, the units that had not ended
\* by the end of the grace period having been cancelled.
C32_StopProtocol ==
    /\ [][~ running =>
            /\ active_tasks' \subseteq active_tasks
            /\ pending_tasks' = pending_tasks
            /\ claim_arg' \in {claim_arg, NULL}
            /\ \A id \in TaskIds :
                  (tasks[id].status = PENDING /\ tasks'[id].status = PROCESSING)
                      => id = claim_arg]_vars
    /\ [](spc = "stopped" =>
            /\ active_tasks = {}
            /\ \A id \in TaskIds : pc[UnitOf(id)] \notin UnitRunning)
    /\ [][(spc = "waiting" /\ spc' = "stopped") =>
            \A id \in active_tasks : pc'[UnitOf(id)] = "cancelled"]_vars

\* stop() is over: one unit had ended by itself before, one was cancelled
\* at the end of the grace period
C32_Witness ==
    /\ spc = "stopped"
    /\ \E id \in TaskIds : pc[UnitOf(id)] = "cancelled"
    /\ \E id \in TaskIds : pc[UnitOf(id)] = "done"

\* ------------------------------------------------------------------ C33
\* C33: a task this worker has claimed and that is in status processing has
\* its processing unit, tracked and not ended, or is the task whose claim
\* the main loop is about to take the result of and spawn the unit for.
C33_ClaimedTaskHasUnit ==
    \A id \in TaskIds :
        (tasks[id].status = PROCESSING /\ wins[id] > 0) =>
            \/ id \in active_tasks /\ pc[UnitOf(id)] \in UnitRunning
            \/ wpc = "await_claim" /\ claim_arg = id

\* ------------------------------------------------------------------ C37
\* C37: with the worker running and its units ending, a task that is pending
\* does not stay pending (it is claimed, or cancelled first), a tracked unit
\* does not stay tracked, and when no task is pending the set of tracked
\* units becomes empty.
C37_PendingEventuallyClaimed ==
    /\ \A id \in TaskIds : (tasks[id].status = PENDING) ~> (tasks[id].status # PENDING)
    /\ \A id \in TaskIds : (id \in active_tasks) ~> (id \notin active_tasks)
    /\ (\A id \in TaskIds : tasks[id].status # PENDING) ~> (active_tasks = {})

\* a worker with one slot: the unit of one task has ended and freed the
\* slot, and the task that was pending meanwhile has been claimed into it
C37_Witness ==
    /\ max_concurrent_tasks = 1
    /\ \E a, b \in TaskIds :
          /\ a # b
          /\ pc[UnitOf(a)] = "done" /\ a \notin active_tasks
          /\ b \in active_tasks /\ tasks[b].status = PROCESSING

\* ------------------------------------------------------------------ C34
\* C34: when the try block of a dispatched tool call is over (the tool was
\* announced to the progress sink and invoked), the progress sink has been
\* given a tool_start entry and then a tool_end entry for it, whether the
\* tool succeeded, returned success=false or raised.
C34_ToolStartThenToolEnd ==
    (opc = "tool_result" /\ step_types # <<>>) =>
        step_types = <<"tool_start", "tool_end">>

\* ------------------------------------------------------------------ C35
\* number of times message m is in the sequence msgs
Count(msgs, m) == Cardinality({i \in DOMAIN msgs : msgs[i] = m})

\* C35: when the units of the tasks of one conversation, processed
\* concurrently, have ended, every task is completed and the saved
\* conversation contains the user message and the assistant reply of each.
C35_BothExchangesSaved ==
    (\A id \in TaskIds : pc[UnitOf(id)] = "done") =>
        \A id \in TaskIds :
            /\ tasks[id].status = COMPLETED
            /\ Count(saved_messages, <<"user", id>>) = 1
            /\ Count(saved_messages, <<"assistant", id>>) = 1

\* ------------------------------------------------------------------ C36
\* C36: when the handler has handled a message frame with "background" set,
\* a task has been created for it, pending for the worker that is to
\* complete it, and the saved conversation contains that user message
\* exactly once; no reply belongs to the task before the worker adds it.
C36_UserMessageSavedOnce ==
    [][HandleMessage(TRUE) =>
          \E id \in TaskIds :
              /\ tasks[id].status = "absent"
              /\ tasks'[id].status = PENDING
              /\ Count(saved_messages', <<"user", id>>) = 1
              /\ Count(saved_messages', <<"assistant", id>>) = 0]_vars

\* ------------------------------------------------------------------ C38
\* C38: an invocation that reaches its terminal does not remove the
\* container of its conversation while another invocation on the same
\* conversation has dispatched a tool and has not reached its terminal.
C38_NoReleaseWhileInUse ==
    [][\A r \in Runs :
          (rpc[r] # "returned" /\ rpc'[r] = "returned") =>
              \A q \in Runs \ {r} :
                  (rpc[q] = "tools" /\ rsession[q] = rsession[r]) =>
                      \A n \in ContainerNames :
                          containers[n] # "absent" => containers'[n] # "absent"]_vars

====
